---- MODULE Spec2Model ----
(***************************************************************************)
(* The credential vault daemon of prosperity-ai (src/vault/src): the       *)
(* crypto primitives (crypto.rs), the vault store (vault.rs), the audit    *)
(* log (audit.rs) and the daemon with its socket server (api.rs).          *)
(*                                                                         *)
(* Three specifications drive the same code model:                         *)
(*   SpecVault  a caller of the Vault API, as the unit tests of vault.rs;  *)
(*   SpecAudit  a caller of the AuditLog API, as the unit tests of         *)
(*              audit.rs;                                                  *)
(*   Spec       the daemon: connection handlers around VaultDaemon.        *)
(*                                                                         *)
(* The cryptographic primitives are modelled as ideal: a key derivation    *)
(* or a hash is an injective constructor, a ciphertext opens only under    *)
(* the key, nonce and body its tag was computed from.  The filesystem of   *)
(* these specifications performs every read and write it is asked to.      *)
(***************************************************************************)
EXTENDS Integers, Sequences, FiniteSets, TLC

\* ------------------------------------------------------------------------
\* Rust's Option and Result
\* ------------------------------------------------------------------------

None == [some |-> FALSE]

Some(x) == [some |-> TRUE, val |-> x]

Ok(v) == [ok |-> TRUE, val |-> v]

Err(m) == [ok |-> FALSE, err |-> m]

\* The value of Ok(()).
Unit == "()"

\* ------------------------------------------------------------------------
\* crypto.rs
\* ------------------------------------------------------------------------

ARGON2_MEMORY_KIB == 262144

ARGON2_ITERATIONS == 4

ARGON2_PARALLELISM == 4

KEY_LEN == 32

\* NONCEBYTES of XChaCha20.
NONCE_LEN == 24

\* The bytes of a Poly1305 tag: the 16 of "NONCE_LEN + 16" in decrypt.
TAG_LEN == 16

\* Argon2id (hash_password_into): the key is a function of the passphrase,
\* the salt and the three parameters (memory, iterations, parallelism), and
\* of nothing else.
argon2id(passphrase, salt, params) ==
    [argon2id |-> <<passphrase, salt>>, params |-> params]

\* Argon2id under the baseline constants: the key is a function of the
\* passphrase, the salt and the three parameters, and of nothing else.
\* Params::new accepts the constants, so the Err branches are not taken.
derive_master_key(passphrase, salt) ==
    argon2id(passphrase, salt,
             <<ARGON2_MEMORY_KIB, ARGON2_ITERATIONS, ARGON2_PARALLELISM>>)

\* HKDF-SHA256 with no salt and the context as info.
derive_subkey(master, context) ==
    [hkdf_ikm |-> master, hkdf_info |-> context]

\* SecureKey::expose: the 32 bytes of a key.
expose(key) == [bytes |-> key, len |-> KEY_LEN]

\* The Poly1305 tag over the body, under the key and the nonce.
poly1305(key, nonce, body) == <<"tag", key, nonce, body>>

\* nonce (24 bytes) || ciphertext || tag (16 bytes).  The nonce, which the
\* code draws at random, is a parameter; len is the length of the output
\* without the bytes of the plaintext, which the model does not count.
encrypt(plaintext, key, nonce) ==
    LET body == [sealed |-> plaintext, nonce |-> nonce]
    IN  [len   |-> NONCE_LEN + TAG_LEN,
         nonce |-> nonce,
         body  |-> body,
         tag   |-> poly1305(key, nonce, body)]

\* A decrypt that opens the box without checking the tag.
decrypt_unauthenticated(ciphertext, key) ==
    IF ciphertext.len < NONCE_LEN + TAG_LEN
    THEN Err("Ciphertext too short")
    ELSE Ok(ciphertext.body.sealed)

decrypt(ciphertext, key) ==
    IF ciphertext.len < NONCE_LEN + TAG_LEN
    THEN Err("Ciphertext too short")
    ELSE IF ciphertext.tag = poly1305(key, ciphertext.nonce, ciphertext.body)
         THEN Ok(ciphertext.body.sealed)
         ELSE Err("Decryption failed: invalid key or tampered data")

\* ------------------------------------------------------------------------
\* The vault directory on disk
\* ------------------------------------------------------------------------

\* Category::all(), in its order.
Category_all ==
    <<"authentication", "financial", "identity", "health", "personal", "patterns">>

Categories == {Category_all[i] : i \in 1..Len(Category_all)}

context_string(category) ==
    CASE category = "authentication" -> "category-auth"
      [] category = "financial"      -> "category-financial"
      [] category = "identity"       -> "category-identity"
      [] category = "health"         -> "category-health"
      [] category = "personal"       -> "category-personal"
      [] category = "patterns"       -> "category-patterns"

\* The file of a category, under categories/.
filename(category) ==
    CASE category = "authentication" -> "auth.enc"
      [] category = "financial"      -> "financial.enc"
      [] category = "identity"       -> "identity.enc"
      [] category = "health"         -> "health.enc"
      [] category = "personal"       -> "personal.enc"
      [] category = "patterns"       -> "patterns.enc"

\* The files of the vault directory.
Paths ==
    {"vault.meta", "dek.enc", "audit.enc"} \cup {filename(c) : c \in Categories}

\* No vault directory.
NoDir == [dir |-> FALSE, files |-> [p \in Paths |-> None]]

\* File::create, write_all, sync_all of an encrypted blob.
save_encrypted(fs, path, data, key, nonce) ==
    [res |-> Ok(Unit),
     fs  |-> [fs EXCEPT !.files[path] = Some(encrypt(data, key, nonce))]]

load_encrypted(fs, path, key) ==
    IF ~fs.files[path].some
    THEN Err("No such file or directory")
    ELSE decrypt(fs.files[path].val, key)

\* ------------------------------------------------------------------------
\* vault.rs: entries and their serialized form
\* ------------------------------------------------------------------------

\* base64 STANDARD.encode of a byte string.
base64_encode(bytes) == [b64 |-> bytes]

\* STANDARD.decode: an error for a string that is not base64.
base64_decode(s) ==
    IF "b64" \in DOMAIN s THEN Ok(s.b64) ELSE Err("Invalid base64")

VaultEntry_new(category, entry_type, name, value, id, now) ==
    [id |-> id, category |-> category, entry_type |-> entry_type,
     name |-> name, username |-> None, url |-> None, notes |-> None,
     value |-> value, tags |-> <<>>,
     created |-> now, modified |-> now, accessed |-> now,
     access_count |-> 0]

with_username(entry, username) == [entry EXCEPT !.username = Some(username)]

with_url(entry, url) == [entry EXCEPT !.url = Some(url)]

\* A serializer that encodes an empty value.
VaultEntry_serialize_no_value(entry) ==
    [entry EXCEPT !.value = base64_encode("")]

\* serde's form of an entry: the value travels as base64 (mod secret_bytes).
VaultEntry_serialize(entry) ==
    [entry EXCEPT !.value = base64_encode(entry.value)]

VaultEntry_deserialize(json) ==
    LET bytes == base64_decode(json.value)
    IN  IF bytes.ok THEN Ok([json EXCEPT !.value = bytes.val]) ELSE bytes

\* serde_json::to_vec of a CategoryData.
CategoryData_to_vec(cat_data) ==
    [entries |-> [i \in 1..Len(cat_data.entries) |->
                     VaultEntry_serialize(cat_data.entries[i])]]

\* serde_json::from_slice::<CategoryData>.
CategoryData_from_slice(data) ==
    IF "entries" \notin DOMAIN data
    THEN Err("missing field entries")
    ELSE LET parsed == [i \in 1..Len(data.entries) |->
                           VaultEntry_deserialize(data.entries[i])]
         IN  IF \E i \in 1..Len(parsed) : ~parsed[i].ok
             THEN Err("invalid entry")
             ELSE Ok([entries |-> [i \in 1..Len(parsed) |-> parsed[i].val]])

CategoryData_default == [entries |-> <<>>]

\* A projection that keeps the secret.
EntryMetadata_with_value(e) ==
    [id |-> e.id, category |-> e.category, entry_type |-> e.entry_type,
     name |-> e.name, username |-> e.username, url |-> e.url,
     tags |-> e.tags, value |-> e.value]

\* The projection list_entries returns.
EntryMetadata(e) ==
    [id |-> e.id, category |-> e.category, entry_type |-> e.entry_type,
     name |-> e.name, username |-> e.username, url |-> e.url,
     tags |-> e.tags]

VaultMeta_default(salt, now) ==
    [version |-> 1, created |-> now, modified |-> now, salt |-> salt,
     kdf_memory_kib |-> ARGON2_MEMORY_KIB,
     kdf_iterations |-> ARGON2_ITERATIONS,
     kdf_parallelism |-> ARGON2_PARALLELISM,
     recovery_enabled |-> FALSE, hardware_key_required |-> FALSE]

\* ------------------------------------------------------------------------
\* vault.rs: struct Vault and its operations
\* ------------------------------------------------------------------------

\* The map with no key (HashMap::new()).
EmptyMap == [c \in {} |-> None]

\* HashMap::insert.
Insert(map, k, v) == [c \in DOMAIN map \cup {k} |-> IF c = k THEN v ELSE map[c]]

\* serde_json::to_vec_pretty of the metadata, and its parse.
VaultMeta_to_vec(meta) == [json |-> meta]

VaultMeta_from_slice(data) ==
    IF "json" \in DOMAIN data THEN Ok(data.json) ELSE Err("invalid vault.meta")

Vault_create(fs, passphrase, salt, dek, nonce, now) ==
    LET meta == VaultMeta_default(salt, now)
        master_key == derive_master_key(passphrase, meta.salt)
        kek == derive_subkey(master_key, "kek")
        dek_encrypted == encrypt(expose(dek), kek, nonce)
        category_keys ==
            [cat \in Categories |-> derive_subkey(master_key, context_string(cat))]
        cat_of(path) == CHOOSE cat \in Categories : filename(cat) = path
        files ==
            [p \in Paths |->
                CASE p = "dek.enc"    -> Some(dek_encrypted)
                  [] p = "vault.meta" -> Some(VaultMeta_to_vec(meta))
                  [] p = "audit.enc"  -> fs.files[p]
                  [] OTHER ->
                       save_encrypted(fs, p,
                                      CategoryData_to_vec(CategoryData_default),
                                      category_keys[cat_of(p)], nonce).fs.files[p]]
    IN  [res |-> Ok([meta |-> meta,
                     master_key |-> Some(master_key),
                     kek |-> Some(kek),
                     dek |-> Some(dek),
                     category_keys |-> category_keys,
                     unlocked_categories |-> EmptyMap]),
         fs  |-> [dir |-> TRUE, files |-> files]]

\* A Vault::open that hands out a vault with a master key in it.
Vault_open_with_master_key(fs) ==
    IF ~fs.files["vault.meta"].some
    THEN Err("No such file or directory")
    ELSE LET meta == VaultMeta_from_slice(fs.files["vault.meta"].val)
         IN  IF ~meta.ok
             THEN meta
             ELSE Ok([meta |-> meta.val,
                      master_key |-> Some(derive_master_key("", meta.val.salt)),
                      kek |-> None,
                      dek |-> None,
                      category_keys |-> EmptyMap,
                      unlocked_categories |-> EmptyMap])

Vault_open(fs) ==
    IF ~fs.files["vault.meta"].some
    THEN Err("No such file or directory")
    ELSE LET meta == VaultMeta_from_slice(fs.files["vault.meta"].val)
         IN  IF ~meta.ok
             THEN meta
             ELSE Ok([meta |-> meta.val,
                      master_key |-> None,
                      kek |-> None,
                      dek |-> None,
                      category_keys |-> EmptyMap,
                      unlocked_categories |-> EmptyMap])

\* Vault::unlock with the keys stored before the DEK is checked.
Vault_unlock_keys_first(vault, fs, passphrase) ==
    LET master_key == derive_master_key(passphrase, vault.meta.salt)
        kek == derive_subkey(master_key, "kek")
        dek_bytes == load_encrypted(fs, "dek.enc", kek)
        keyed == [vault EXCEPT !.master_key = Some(master_key),
                               !.kek = Some(kek)]
    IN  IF ~dek_bytes.ok
        THEN [res |-> dek_bytes, vault |-> keyed]
        ELSE [res   |-> Ok(Unit),
              vault |-> [keyed EXCEPT
                            !.dek = Some(dek_bytes.val.bytes),
                            !.category_keys =
                                [cat \in Categories |->
                                    derive_subkey(master_key, context_string(cat))]]]

Vault_unlock(vault, fs, passphrase) ==
    LET master_key == derive_master_key(passphrase, vault.meta.salt)
        kek == derive_subkey(master_key, "kek")
        dek_bytes == load_encrypted(fs, "dek.enc", kek)
        category_keys ==
            [cat \in Categories |-> derive_subkey(master_key, context_string(cat))]
    IN  IF ~dek_bytes.ok
        THEN [res |-> dek_bytes, vault |-> vault]
        ELSE IF dek_bytes.val.len # KEY_LEN
        THEN [res |-> Err("Invalid DEK length"), vault |-> vault]
        ELSE [res   |-> Ok(Unit),
              vault |-> [vault EXCEPT !.master_key = Some(master_key),
                                      !.kek = Some(kek),
                                      !.dek = Some(dek_bytes.val.bytes),
                                      !.category_keys = category_keys]]

is_unlocked(vault) == vault.master_key.some

\* A lock that clears the keys and keeps the decrypted categories.
Vault_lock_keeps_categories(vault) ==
    [vault EXCEPT !.master_key = None,
                  !.kek = None,
                  !.dek = None,
                  !.category_keys = EmptyMap]

Vault_lock(vault) ==
    [vault EXCEPT !.master_key = None,
                  !.kek = None,
                  !.dek = None,
                  !.category_keys = EmptyMap,
                  !.unlocked_categories = EmptyMap]

load_category(vault, fs, category) ==
    IF category \notin DOMAIN vault.category_keys
    THEN [res |-> Err("Category key not available"), vault |-> vault]
    ELSE LET insert(cat_data) ==
                 IF ~cat_data.ok
                 THEN [res |-> cat_data, vault |-> vault]
                 ELSE [res   |-> Ok(Unit),
                       vault |-> [vault EXCEPT !.unlocked_categories =
                                     Insert(@, category, cat_data.val)]]
             parse(data) ==
                 IF ~data.ok
                 THEN [res |-> data, vault |-> vault]
                 ELSE insert(CategoryData_from_slice(data.val))
         IN  parse(load_encrypted(fs, filename(category),
                                  vault.category_keys[category]))

\* A save_category that also rewrites vault.meta with a later modified time.
save_category_rewrites_meta(vault, fs, category, nonce) ==
    IF category \notin DOMAIN vault.category_keys
    THEN [res |-> Err("Category key not available"), fs |-> fs]
    ELSE IF category \notin DOMAIN vault.unlocked_categories
    THEN [res |-> Err("Category not loaded"), fs |-> fs]
    ELSE save_encrypted([fs EXCEPT !.files["vault.meta"] =
                            Some(VaultMeta_to_vec([vault.meta EXCEPT
                                                      !.modified = @ + 1]))],
                        filename(category),
                        CategoryData_to_vec(vault.unlocked_categories[category]),
                        vault.category_keys[category], nonce)

save_category(vault, fs, category, nonce) ==
    IF category \notin DOMAIN vault.category_keys
    THEN [res |-> Err("Category key not available"), fs |-> fs]
    ELSE IF category \notin DOMAIN vault.unlocked_categories
    THEN [res |-> Err("Category not loaded"), fs |-> fs]
    ELSE save_encrypted(fs, filename(category),
                        CategoryData_to_vec(vault.unlocked_categories[category]),
                        vault.category_keys[category], nonce)

\* "if !self.unlocked_categories.contains_key(cat) { self.load_category(cat)? }"
ensure_loaded(vault, fs, category) ==
    IF category \in DOMAIN vault.unlocked_categories
    THEN [res |-> Ok(Unit), vault |-> vault]
    ELSE load_category(vault, fs, category)

\* add_entry without the save_category call.
add_entry_no_save(vault, fs, entry, nonce) ==
    LET category == entry.category
        push(loaded) ==
            IF ~loaded.res.ok
            THEN [res |-> loaded.res, vault |-> loaded.vault, fs |-> fs]
            ELSE [res   |-> Ok(entry.id),
                  vault |-> [loaded.vault EXCEPT
                                !.unlocked_categories[category].entries =
                                    Append(@, entry)],
                  fs    |-> fs]
    IN  push(ensure_loaded(vault, fs, category))

add_entry(vault, fs, entry, nonce) ==
    LET category == entry.category
        save(pushed, saved) ==
            [res   |-> IF saved.res.ok THEN Ok(entry.id) ELSE saved.res,
             vault |-> pushed,
             fs    |-> saved.fs]
        push(pushed) == save(pushed, save_category(pushed, fs, category, nonce))
        add(loaded) ==
            IF ~loaded.res.ok
            THEN [res |-> loaded.res, vault |-> loaded.vault, fs |-> fs]
            ELSE push([loaded.vault EXCEPT
                          !.unlocked_categories[category].entries =
                              Append(@, entry)])
    IN  add(ensure_loaded(vault, fs, category))

\* The first loop of get_entry: load, in Category::all() order from index i
\* on, every category not yet loaded; the first failure ends the loop.
RECURSIVE load_all(_, _, _)
load_all(vault, fs, i) ==
    IF i > Len(Category_all)
    THEN [res |-> Ok(Unit), vault |-> vault]
    ELSE LET next(loaded) == IF ~loaded.res.ok
                             THEN loaded
                             ELSE load_all(loaded.vault, fs, i + 1)
         IN  next(ensure_loaded(vault, fs, Category_all[i]))

\* The index of the first entry of a sequence with the id, 0 when none
\* (iter().position / iter().find).
position(entries, id) ==
    IF \E i \in 1..Len(entries) : entries[i].id = id
    THEN CHOOSE i \in 1..Len(entries) :
            /\ entries[i].id = id
            /\ \A j \in 1..(i - 1) : entries[j].id # id
    ELSE 0

\* get_entry.  The search runs over unlocked_categories.values(), a HashMap,
\* in an order the code does not fix: found is the set of entries the search
\* can return, the first match of each category that has one; Ok(None) only
\* when it is empty.
get_entry(vault, fs, id) ==
    LET first(es) == es[position(es, id)]
        search(loaded) ==
            [res   |-> loaded.res,
             vault |-> loaded.vault,
             found |-> IF loaded.res.ok
                       THEN {first(loaded.vault.unlocked_categories[c].entries) :
                               c \in {c \in DOMAIN loaded.vault.unlocked_categories :
                                         position(loaded.vault.unlocked_categories[c].entries,
                                                  id) # 0}}
                       ELSE {}]
    IN  search(load_all(vault, fs, 1))

list_entries(vault, fs, category) ==
    LET metadata(es) == [i \in 1..Len(es) |-> EntryMetadata(es[i])]
        list(loaded) ==
            IF ~loaded.res.ok
            THEN [res |-> loaded.res, vault |-> loaded.vault]
            ELSE [res   |-> Ok(metadata(loaded.vault.unlocked_categories[category].entries)),
                  vault |-> loaded.vault]
    IN  list(ensure_loaded(vault, fs, category))

\* A Vec::remove that takes the rest of the vector with it.
remove_through(entries, pos) == [i \in 1..(pos - 1) |-> entries[i]]

\* Remove the element at index pos (Vec::remove).
remove(entries, pos) ==
    [i \in 1..(Len(entries) - 1) |-> IF i < pos THEN entries[i] ELSE entries[i + 1]]

\* delete_entry: the loop over Category::all() from index i on.
RECURSIVE delete_from(_, _, _, _, _)
delete_from(vault, fs, id, nonce, i) ==
    IF i > Len(Category_all)
    THEN [res |-> Ok(FALSE), vault |-> vault, fs |-> fs]
    ELSE LET cat == Category_all[i]
             save(removed, saved) ==
                 [res   |-> IF saved.res.ok THEN Ok(TRUE) ELSE saved.res,
                  vault |-> removed,
                  fs    |-> saved.fs]
             retain(removed) == save(removed, save_category(removed, fs, cat, nonce))
             at(loaded, es, pos) ==
                 IF pos = 0
                 THEN delete_from(loaded.vault, fs, id, nonce, i + 1)
                 ELSE retain([loaded.vault EXCEPT
                                 !.unlocked_categories[cat].entries = remove(es, pos)])
             in(loaded, es) == at(loaded, es, position(es, id))
             look(loaded) ==
                 IF ~loaded.res.ok
                 THEN [res |-> loaded.res, vault |-> loaded.vault, fs |-> fs]
                 ELSE in(loaded, loaded.vault.unlocked_categories[cat].entries)
         IN  look(ensure_loaded(vault, fs, cat))

delete_entry(vault, fs, id, nonce) == delete_from(vault, fs, id, nonce, 1)

\* ------------------------------------------------------------------------
\* audit.rs
\* ------------------------------------------------------------------------

\* A hex string that is written out in the code.
Hex(text) == <<text>>

GENESIS_HASH ==
    Hex("0000000000000000000000000000000000000000000000000000000000000000")

\* blake3::hash(..).to_hex(): an injective function of its input.
blake3(input) == <<"blake3", input>>

\* A hash input that leaves the outcome out.
hash_input_without_granted(e) ==
    <<e.id, e.timestamp, e.event_type, e.entry_id, e.entry_name, e.category,
      e.agent_id, e.origin_chain, e.purpose, e.denial_reason,
      e.target_domain, e.previous_hash>>

\* The fields compute_hash formats into hash_input, in its order.
hash_input(e) ==
    <<e.id, e.timestamp, e.event_type, e.entry_id, e.entry_name, e.category,
      e.agent_id, e.origin_chain, e.purpose, e.granted, e.denial_reason,
      e.target_domain, e.previous_hash>>

compute_hash(e) == [e EXCEPT !.entry_hash = blake3(hash_input(e))]

verify_hash(e) ==
    LET check == compute_hash([e EXCEPT !.entry_hash = Hex("")])
    IN  check.entry_hash = e.entry_hash

AuditEntry_new(event_type, previous_hash, id, now) ==
    compute_hash(
        [id |-> id, timestamp |-> now, event_type |-> event_type,
         entry_id |-> None, entry_name |-> None, category |-> None,
         agent_id |-> None, origin_chain |-> None, purpose |-> None,
         granted |-> TRUE, denial_reason |-> None, target_domain |-> None,
         previous_hash |-> previous_hash, entry_hash |-> Hex("")])

with_entry(e, id, name) ==
    compute_hash([e EXCEPT !.entry_id = Some(id), !.entry_name = Some(name)])

with_category(e, category) == compute_hash([e EXCEPT !.category = Some(category)])

with_agent(e, agent_id) == compute_hash([e EXCEPT !.agent_id = Some(agent_id)])

with_purpose(e, purpose) == compute_hash([e EXCEPT !.purpose = Some(purpose)])

denied(e, reason) ==
    compute_hash([e EXCEPT !.granted = FALSE, !.denial_reason = Some(reason)])

\* serde's names of the event types (rename_all = "snake_case").
EventTypeNames ==
    {<<"VaultUnlock", "vault_unlock">>, <<"VaultLock", "vault_lock">>,
     <<"CategoryUnlock", "category_unlock">>, <<"EntryAccess", "entry_access">>,
     <<"EntryCreate", "entry_create">>, <<"EntryUpdate", "entry_update">>,
     <<"EntryDelete", "entry_delete">>, <<"AuthUse", "auth_use">>,
     <<"AnomalyDetected", "anomaly_detected">>,
     <<"AccessDenied", "access_denied">>}

\* serde_json::to_string of an entry: one line of the log.
AuditEntry_to_string(e) ==
    [e EXCEPT !.event_type =
        (CHOOSE n \in EventTypeNames : n[1] = e.event_type)[2]]

\* serde_json::from_str::<AuditEntry> of a line.
AuditEntry_from_str(line) ==
    IF \E n \in EventTypeNames : n[2] = line.event_type
    THEN Ok([line EXCEPT !.event_type =
                (CHOOSE n \in EventTypeNames : n[2] = line.event_type)[1]])
    ELSE Err("unknown variant")

\* The plaintext of audit.enc as AuditLog reads it: the lines of the file,
\* or none when the file is absent or empty; an error when it does not
\* decrypt.
read_content(fs, key) ==
    IF ~fs.files["audit.enc"].some THEN Ok(<<>>)
    ELSE IF fs.files["audit.enc"].val.len = 0 THEN Ok(<<>>)
    ELSE decrypt(fs.files["audit.enc"].val, key)

read_last_hash(fs, key) ==
    LET content == read_content(fs, key)
    IN  IF ~content.ok THEN content
        ELSE IF Len(content.val) = 0 THEN Ok(GENESIS_HASH)
        ELSE LET entry == AuditEntry_from_str(content.val[Len(content.val)])
             IN  IF entry.ok THEN Ok(entry.val.entry_hash) ELSE entry

AuditLog_open(fs, key) ==
    LET last_hash == IF fs.files["audit.enc"].some
                     THEN read_last_hash(fs, key)
                     ELSE Ok(GENESIS_HASH)
    IN  IF last_hash.ok
        THEN Ok([key |-> key, last_hash |-> last_hash.val])
        ELSE last_hash

\* append that writes the new line in front of the lines of the file.
append_in_front(log, fs, entry0, nonce) ==
    LET entry == compute_hash([entry0 EXCEPT !.previous_hash = log.last_hash,
                                             !.entry_hash = Hex("")])
        line == AuditEntry_to_string(entry)
        content == read_content(fs, log.key)
    IN  IF ~content.ok
        THEN [res |-> content, log |-> log, fs |-> fs]
        ELSE [res |-> Ok(Unit),
              log |-> [log EXCEPT !.last_hash = entry.entry_hash],
              fs  |-> [fs EXCEPT !.files["audit.enc"] =
                          Some(encrypt(<<line>> \o content.val, log.key, nonce))]]

\* append that forgets to move last_hash on.
append_stale_last_hash(log, fs, entry0, nonce) ==
    LET entry == compute_hash([entry0 EXCEPT !.previous_hash = log.last_hash,
                                             !.entry_hash = Hex("")])
        line == AuditEntry_to_string(entry)
        content == read_content(fs, log.key)
    IN  IF ~content.ok
        THEN [res |-> content, log |-> log, fs |-> fs]
        ELSE [res |-> Ok(Unit),
              log |-> log,
              fs  |-> [fs EXCEPT !.files["audit.enc"] =
                          Some(encrypt(Append(content.val, line), log.key, nonce))]]

append(log, fs, entry0, nonce) ==
    LET entry == compute_hash([entry0 EXCEPT !.previous_hash = log.last_hash,
                                             !.entry_hash = Hex("")])
        line == AuditEntry_to_string(entry)
        content == read_content(fs, log.key)
    IN  IF ~content.ok
        THEN [res |-> content, log |-> log, fs |-> fs]
        ELSE [res |-> Ok(Unit),
              log |-> [log EXCEPT !.last_hash = entry.entry_hash],
              fs  |-> [fs EXCEPT !.files["audit.enc"] =
                          Some(encrypt(Append(content.val, line), log.key, nonce))]]

log_unlock(log, fs, id, now, nonce) ==
    append(log, fs, AuditEntry_new("VaultUnlock", log.last_hash, id, now), nonce)

log_lock(log, fs, id, now, nonce) ==
    append(log, fs, AuditEntry_new("VaultLock", log.last_hash, id, now), nonce)

\* A log_access that leaves out who asked and why.
log_access_anonymous(log, fs, entry_id, entry_name, category, agent_id, purpose, id, now, nonce) ==
    append(log, fs,
           with_category(
               with_entry(AuditEntry_new("EntryAccess", log.last_hash, id, now),
                          entry_id, entry_name),
               category),
           nonce)

log_access(log, fs, entry_id, entry_name, category, agent_id, purpose, id, now, nonce) ==
    LET e0 == with_category(
                  with_entry(AuditEntry_new("EntryAccess", log.last_hash, id, now),
                             entry_id, entry_name),
                  category)
        e1 == IF agent_id.some THEN with_agent(e0, agent_id.val) ELSE e0
        e2 == IF purpose.some THEN with_purpose(e1, purpose.val) ELSE e1
    IN  append(log, fs, e2, nonce)

log_denial(log, fs, reason, agent_id, category, id, now, nonce) ==
    LET e0 == denied(AuditEntry_new("AccessDenied", log.last_hash, id, now), reason)
        e1 == IF agent_id.some THEN with_agent(e0, agent_id.val) ELSE e0
        e2 == IF category.some THEN with_category(e1, category.val) ELSE e1
    IN  append(log, fs, e2, nonce)

read_all(log, fs) ==
    LET content == read_content(fs, log.key)
    IN  IF ~content.ok THEN content
        ELSE LET parsed == [i \in 1..Len(content.val) |->
                               AuditEntry_from_str(content.val[i])]
             IN  IF \E i \in 1..Len(parsed) : ~parsed[i].ok
                 THEN Err("invalid audit entry")
                 ELSE Ok([i \in 1..Len(parsed) |-> parsed[i].val])

\* The loop of verify_chain from entry i on.
RECURSIVE verify_from(_, _, _)
verify_from(entries, i, expected_prev) ==
    IF i > Len(entries) THEN TRUE
    ELSE IF entries[i].previous_hash # expected_prev THEN FALSE
    ELSE IF ~verify_hash(entries[i]) THEN FALSE
    ELSE verify_from(entries, i + 1, entries[i].entry_hash)

verify_chain(log, fs) ==
    LET entries == read_all(log, fs)
    IN  IF ~entries.ok THEN entries
        ELSE Ok(verify_from(entries.val, 1, GENESIS_HASH))

\* SecureKey::generate() and generate_nonce(): no read depends on which key
\* or nonce was drawn, one value of each stands for them all.
RandomKey == [random |-> "k0"]

FileNonce == "n0"

\* generate_salt(): likewise.
RandomSalt == "salt1"

\* ------------------------------------------------------------------------
\* api.rs: requests and responses
\* ------------------------------------------------------------------------

\* A line a client sends is bytes that are not UTF-8, text that is not JSON,
\* or a JSON object.
NotUtf8 == [utf8 |-> FALSE]

NotJson(text) == [utf8 |-> TRUE, json |-> FALSE, text |-> text]

Json(obj) == [utf8 |-> TRUE, json |-> TRUE, obj |-> obj]

\* The value of an optional field of a JSON object.
optional(obj, field) == IF field \in DOMAIN obj THEN Some(obj[field]) ELSE None

\* The fields serde requires of each command of enum Request.
RequiredFields ==
    [unlock       |-> {"passphrase"},
     lock         |-> {},
     status       |-> {},
     list         |-> {"category"},
     get          |-> {"id"},
     create       |-> {"entry"},
     delete       |-> {"id"},
     use_for_auth |-> {"id", "target_url", "agent_id", "purpose"}]

\* The fields serde requires of a NewEntryRequest.
NewEntryRequestFields == {"category", "entry_type", "name", "value"}

\* serde_json::from_str::<Request>(&line)
Request_from_str(line) ==
    IF ~line.json THEN Err("expected value")
    ELSE LET obj == line.obj
         IN  IF "cmd" \notin DOMAIN obj THEN Err("missing field cmd")
             ELSE IF obj.cmd \notin DOMAIN RequiredFields
             THEN Err("unknown variant")
             ELSE IF ~(RequiredFields[obj.cmd] \subseteq DOMAIN obj)
             THEN Err("missing field")
             ELSE CASE obj.cmd = "unlock" ->
                         Ok([cmd |-> "unlock", passphrase |-> obj.passphrase,
                             categories |-> optional(obj, "categories")])
                    [] obj.cmd = "list" ->
                         IF obj.category \in Categories
                         THEN Ok([cmd |-> "list", category |-> obj.category])
                         ELSE Err("unknown variant")
                    [] obj.cmd = "get" ->
                         Ok([cmd |-> "get", id |-> obj.id,
                             agent_id |-> optional(obj, "agent_id"),
                             purpose |-> optional(obj, "purpose")])
                    [] obj.cmd = "create" ->
                         IF ~(NewEntryRequestFields \subseteq DOMAIN obj.entry)
                         THEN Err("missing field")
                         ELSE IF obj.entry.category \notin Categories
                         THEN Err("unknown variant")
                         ELSE Ok([cmd |-> "create",
                                  entry |->
                                     [category   |-> obj.entry.category,
                                      entry_type |-> obj.entry.entry_type,
                                      name       |-> obj.entry.name,
                                      value      |-> obj.entry.value,
                                      username   |-> optional(obj.entry, "username"),
                                      url        |-> optional(obj.entry, "url")]])
                    [] obj.cmd = "delete" ->
                         Ok([cmd |-> "delete", id |-> obj.id])
                    [] obj.cmd = "use_for_auth" ->
                         Ok([cmd |-> "use_for_auth", id |-> obj.id,
                             target_url |-> obj.target_url,
                             agent_id |-> obj.agent_id, purpose |-> obj.purpose])
                    [] OTHER -> Ok([cmd |-> obj.cmd])

\* Response::ok()
Response_ok == [status |-> "ok", data |-> None]

\* Response::ok_with(data)
Response_ok_with(data) == [status |-> "ok", data |-> Some(data)]

\* Response::error(msg), msg a literal.
Response_error(msg) == [status |-> "error", message |-> <<msg>>]

\* Response::error(format!("<prefix>: {}", e))
Response_error_fmt(prefix, e) == [status |-> "error", message |-> <<prefix, e>>]

\* What a handler leaves behind: its response, the daemon's fields, the
\* vault directory and the clock.
Outcome(response, v, a, fs, clock) ==
    [response |-> response, vault |-> v, audit |-> a, fs |-> fs, clock |-> clock]

\* ------------------------------------------------------------------------
\* api.rs: VaultDaemon
\* ------------------------------------------------------------------------

\* "&[0u8; 32]": the salt handle_unlock derives the audit key with.
ZeroSalt == "00000000000000000000000000000000"

\* unlock_categories: the loop over the categories from index i on.
RECURSIVE load_each(_, _, _, _)
load_each(vault, fs, categories, i) ==
    IF i > Len(categories)
    THEN [res |-> Ok(Unit), vault |-> vault]
    ELSE LET next(loaded) == IF ~loaded.res.ok
                             THEN loaded
                             ELSE load_each(loaded.vault, fs, categories, i + 1)
         IN  next(load_category(vault, fs, categories[i]))

\* An unlock_categories that keeps the keys of the listed categories only.
unlock_categories_only(vault, fs, passphrase, categories) ==
    LET listed == {categories[i] : i \in 1..Len(categories)}
        keep(r) == IF ~r.res.ok
                   THEN r
                   ELSE [r EXCEPT !.vault.category_keys =
                                      [cat \in listed |-> @[cat]]]
        load(unlocked) == IF ~unlocked.res.ok
                          THEN unlocked
                          ELSE keep(load_each(unlocked.vault, fs, categories, 1))
    IN  load(Vault_unlock(vault, fs, passphrase))

unlock_categories(vault, fs, passphrase, categories) ==
    LET load(unlocked) == IF ~unlocked.res.ok
                          THEN unlocked
                          ELSE load_each(unlocked.vault, fs, categories, 1)
    IN  load(Vault_unlock(vault, fs, passphrase))

\* "Some(v) if v.is_unlocked() => v, _ => return ..."
unlocked_vault(v) == v.some /\ is_unlocked(v.val)

\* "if let Some(ref mut audit) = self.audit { let _ = audit.<log>(..); }":
\* appended is what the log call returns; its result is dropped.
logged(a, fs, appended) ==
    IF a.some
    THEN [audit |-> Some(appended.log), fs |-> appended.fs]
    ELSE [audit |-> a, fs |-> fs]

\* The clock after a handler that may have drawn a uuid for an audit entry.
after_log(a, clock) == IF a.some THEN clock + 1 ELSE clock

\* An unlock that fails when the audit log cannot be opened.
unlock_requires_audit(vault, a, fs, clock, passphrase) ==
    LET mk == derive_master_key(passphrase, ZeroSalt)
        audit_key == derive_subkey(mk, "audit")
        respond(a1, l) ==
            Outcome(Response_ok, Some(vault), l.audit, l.fs, after_log(a1, clock))
        log(a1) ==
            respond(a1, logged(a1, fs,
                               log_unlock(a1.val, fs, clock + 1, clock + 1,
                                          FileNonce)))
        ok(opened) ==
            IF opened.ok
            THEN log(Some(opened.val))
            ELSE Outcome(Response_error_fmt("Unlock failed", opened.err),
                         None, a, fs, clock)
    IN  ok(AuditLog_open(fs, audit_key))

\* handle_unlock: the part after vault_result is Ok(vault).
unlock_succeeded(vault, a, fs, clock, passphrase) ==
    LET mk == derive_master_key(passphrase, ZeroSalt)
        audit_key == derive_subkey(mk, "audit")
        respond(a1, l) ==
            Outcome(Response_ok, Some(vault), l.audit, l.fs, after_log(a1, clock))
        log(a1) ==
            respond(a1, logged(a1, fs,
                               log_unlock(a1.val, fs, clock + 1, clock + 1,
                                          FileNonce)))
        ok(opened) == log(IF opened.ok THEN Some(opened.val) ELSE None)
    IN  ok(AuditLog_open(fs, audit_key))

\* A handle_unlock that creates a vault whether or not one exists.
handle_unlock_always_creates(v, a, fs, clock, passphrase, categories) ==
    LET respond(created) ==
            IF created.res.ok
            THEN {unlock_succeeded(created.res.val, a, created.fs, clock,
                                   passphrase)}
            ELSE {Outcome(Response_error_fmt("Unlock failed", created.res.err),
                          v, a, created.fs, clock)}
    IN  respond(Vault_create(fs, passphrase, RandomSalt, RandomKey, FileNonce,
                             clock))

\* A handle_unlock that drops the daemon's vault and log when it fails.
handle_unlock_forgetting(v, a, fs, clock, passphrase, categories) ==
    LET respond(vault_result, fs1) ==
            IF vault_result.ok
            THEN {unlock_succeeded(vault_result.val, a, fs1, clock, passphrase)}
            ELSE {Outcome(Response_error_fmt("Unlock failed", vault_result.err),
                          None, None, fs1, clock)}
        unlock(unlocked) ==
            respond(IF unlocked.res.ok THEN Ok(unlocked.vault) ELSE unlocked.res,
                    fs)
        open(opened) ==
            IF ~opened.ok
            THEN {Outcome(Response_error_fmt("Failed to open vault", opened.err),
                          None, None, fs, clock)}
            ELSE unlock(IF categories.some
                        THEN unlock_categories(opened.val, fs, passphrase,
                                               categories.val)
                        ELSE Vault_unlock(opened.val, fs, passphrase))
        create(created) == respond(created.res, created.fs)
    IN  IF fs.dir
        THEN open(Vault_open(fs))
        ELSE create(Vault_create(fs, passphrase, RandomSalt, RandomKey, FileNonce,
                                 clock))

handle_unlock(v, a, fs, clock, passphrase, categories) ==
    LET respond(vault_result, fs1) ==
            IF vault_result.ok
            THEN {unlock_succeeded(vault_result.val, a, fs1, clock, passphrase)}
            ELSE {Outcome(Response_error_fmt("Unlock failed", vault_result.err),
                          v, a, fs1, clock)}
        unlock(unlocked) ==
            respond(IF unlocked.res.ok THEN Ok(unlocked.vault) ELSE unlocked.res,
                    fs)
        open(opened) ==
            IF ~opened.ok
            THEN {Outcome(Response_error_fmt("Failed to open vault", opened.err),
                          v, a, fs, clock)}
            ELSE unlock(IF categories.some
                        THEN unlock_categories(opened.val, fs, passphrase,
                                               categories.val)
                        ELSE Vault_unlock(opened.val, fs, passphrase))
        create(created) == respond(created.res, created.fs)
    IN  IF fs.dir
        THEN open(Vault_open(fs))
        ELSE create(Vault_create(fs, passphrase, RandomSalt, RandomKey, FileNonce,
                                 clock))

\* A handle_lock that drops the vault and the audit handle without a record.
handle_lock_silent(v, a, fs, clock) ==
    IF v.some
    THEN {Outcome(Response_ok, None, None, fs, clock)}
    ELSE {Outcome(Response_error("Vault not unlocked"), v, a, fs, clock)}

\* A handle_lock that drops the vault and keeps the audit handle.
handle_lock_keeping_audit(v, a, fs, clock) ==
    LET respond(l) == {Outcome(Response_ok, None, l.audit, l.fs, after_log(a, clock))}
    IN  IF v.some
        THEN respond(logged(a, fs,
                            log_lock(a.val, fs, clock + 1, clock + 1, FileNonce)))
        ELSE {Outcome(Response_error("Vault not unlocked"), v, a, fs, clock)}

handle_lock(v, a, fs, clock) ==
    LET respond(l) == {Outcome(Response_ok, None, None, l.fs, after_log(a, clock))}
    IN  IF v.some
        THEN respond(logged(a, fs,
                            log_lock(a.val, fs, clock + 1, clock + 1, FileNonce)))
        ELSE {Outcome(Response_error("Vault not unlocked"), v, a, fs, clock)}

\* A handle_status that reports a vault on disk as an unlocked vault.
handle_status_of_directory(v, a, fs, clock) ==
    {Outcome(Response_ok_with([unlocked |-> fs.dir, vault_exists |-> fs.dir]),
             v, a, fs, clock)}

handle_status(v, a, fs, clock) ==
    {Outcome(Response_ok_with([unlocked |-> unlocked_vault(v),
                               vault_exists |-> fs.dir]),
             v, a, fs, clock)}

handle_list(v, a, fs, clock, category) ==
    LET respond(listed) ==
            IF listed.res.ok
            THEN {Outcome(Response_ok_with(listed.res.val),
                          Some(listed.vault), a, fs, clock)}
            ELSE {Outcome(Response_error_fmt("List failed", listed.res.err),
                          Some(listed.vault), a, fs, clock)}
    IN  IF ~unlocked_vault(v)
        THEN {Outcome(Response_error("Vault not unlocked"), v, a, fs, clock)}
        ELSE respond(list_entries(v.val, fs, category))

handle_get(v, a, fs, clock, id, agent_id, purpose) ==
    LET return(got, entry, l) ==
            Outcome(Response_ok_with(VaultEntry_serialize(entry)),
                    Some(got.vault), l.audit, l.fs, after_log(a, clock))
        access(got, entry) ==
            return(got, entry,
                   logged(a, fs,
                          log_access(a.val, fs, id, entry.name, entry.category,
                                     agent_id, purpose,
                                     clock + 1, clock + 1, FileNonce)))
        respond(got) ==
            IF ~got.res.ok
            THEN {Outcome(Response_error_fmt("Get failed", got.res.err),
                          Some(got.vault), a, fs, clock)}
            ELSE IF got.found = {}
            THEN {Outcome(Response_error("Entry not found"),
                          Some(got.vault), a, fs, clock)}
            ELSE {access(got, entry) : entry \in got.found}
    IN  IF ~unlocked_vault(v)
        THEN {Outcome(Response_error("Vault not unlocked"), v, a, fs, clock)}
        ELSE respond(get_entry(v.val, fs, id))

\* handle_create that decodes the value before it looks at the vault.
handle_create_decode_first(v, a, fs, clock, req) ==
    LET respond(added) ==
            IF added.res.ok
            THEN {Outcome(Response_ok_with([id |-> added.res.val]),
                          Some(added.vault), a, added.fs, clock + 1)}
            ELSE {Outcome(Response_error_fmt("Create failed", added.res.err),
                          Some(added.vault), a, added.fs, clock + 1)}
        with_optional(e0) ==
            LET e1 == IF req.username.some
                      THEN with_username(e0, req.username.val) ELSE e0
            IN  IF req.url.some THEN with_url(e1, req.url.val) ELSE e1
        create(value) ==
            respond(add_entry(v.val, fs,
                              with_optional(
                                  VaultEntry_new(req.category, req.entry_type,
                                                 req.name, value.val,
                                                 clock + 1, clock + 1)),
                              FileNonce))
        decode(value) ==
            IF ~value.ok
            THEN {Outcome(Response_error_fmt("Invalid base64 value", value.err),
                          v, a, fs, clock)}
            ELSE IF ~unlocked_vault(v)
            THEN {Outcome(Response_error("Vault not unlocked"), v, a, fs, clock)}
            ELSE create(value)
    IN  decode(base64_decode(req.value))

handle_create(v, a, fs, clock, req) ==
    LET respond(added) ==
            IF added.res.ok
            THEN {Outcome(Response_ok_with([id |-> added.res.val]),
                          Some(added.vault), a, added.fs, clock + 1)}
            ELSE {Outcome(Response_error_fmt("Create failed", added.res.err),
                          Some(added.vault), a, added.fs, clock + 1)}
        with_optional(e0) ==
            LET e1 == IF req.username.some
                      THEN with_username(e0, req.username.val) ELSE e0
            IN  IF req.url.some THEN with_url(e1, req.url.val) ELSE e1
        create(value) ==
            respond(add_entry(v.val, fs,
                              with_optional(
                                  VaultEntry_new(req.category, req.entry_type,
                                                 req.name, value.val,
                                                 clock + 1, clock + 1)),
                              FileNonce))
        decode(value) ==
            IF ~value.ok
            THEN {Outcome(Response_error_fmt("Invalid base64 value", value.err),
                          v, a, fs, clock)}
            ELSE create(value)
    IN  IF ~unlocked_vault(v)
        THEN {Outcome(Response_error("Vault not unlocked"), v, a, fs, clock)}
        ELSE decode(base64_decode(req.value))

handle_delete(v, a, fs, clock, id) ==
    LET respond(deleted) ==
            IF ~deleted.res.ok
            THEN {Outcome(Response_error_fmt("Delete failed", deleted.res.err),
                          Some(deleted.vault), a, deleted.fs, clock)}
            ELSE IF deleted.res.val
            THEN {Outcome(Response_ok, Some(deleted.vault), a, deleted.fs, clock)}
            ELSE {Outcome(Response_error("Entry not found"),
                          Some(deleted.vault), a, deleted.fs, clock)}
    IN  IF ~unlocked_vault(v)
        THEN {Outcome(Response_error("Vault not unlocked"), v, a, fs, clock)}
        ELSE respond(delete_entry(v.val, fs, id, FileNonce))

\* A handle_use_for_auth that answers as Get does, with the entry.
handle_use_for_auth_returns_entry(v, a, fs, clock, id, target_url, agent_id, purpose) ==
    handle_get(v, a, fs, clock, id, Some(agent_id), Some(purpose))

handle_use_for_auth(v, a, fs, clock, id, target_url, agent_id, purpose) ==
    LET return(got, l) ==
            Outcome(Response_ok_with(
                        [auth_performed |-> FALSE,
                         message |-> "Auth execution not yet implemented",
                         target |-> target_url]),
                    Some(got.vault), l.audit, l.fs, after_log(a, clock))
        access(got, entry) ==
            return(got,
                   logged(a, fs,
                          log_access(a.val, fs, id, entry.name, entry.category,
                                     Some(agent_id), Some(purpose),
                                     clock + 1, clock + 1, FileNonce)))
        respond(got) ==
            IF ~got.res.ok
            THEN {Outcome(Response_error_fmt("Auth failed", got.res.err),
                          Some(got.vault), a, fs, clock)}
            ELSE IF got.found = {}
            THEN {Outcome(Response_error("Entry not found"),
                          Some(got.vault), a, fs, clock)}
            ELSE {access(got, entry) : entry \in got.found}
    IN  IF ~unlocked_vault(v)
        THEN {Outcome(Response_error("Vault not unlocked"), v, a, fs, clock)}
        ELSE respond(get_entry(v.val, fs, id))

\* VaultDaemon::handle: the outcomes of one request on a daemon with fields
\* v and a.
handle(v, a, fs, clock, req) ==
    CASE req.cmd = "unlock" ->
           handle_unlock(v, a, fs, clock, req.passphrase, req.categories)
      [] req.cmd = "lock" -> handle_lock(v, a, fs, clock)
      [] req.cmd = "status" -> handle_status(v, a, fs, clock)
      [] req.cmd = "list" -> handle_list(v, a, fs, clock, req.category)
      [] req.cmd = "get" ->
           handle_get(v, a, fs, clock, req.id, req.agent_id, req.purpose)
      [] req.cmd = "create" -> handle_create(v, a, fs, clock, req.entry)
      [] req.cmd = "delete" -> handle_delete(v, a, fs, clock, req.id)
      [] req.cmd = "use_for_auth" ->
           handle_use_for_auth(v, a, fs, clock, req.id, req.target_url,
                               req.agent_id, req.purpose)

\* ------------------------------------------------------------------------
\* State
\* ------------------------------------------------------------------------

VARIABLES
    fs,      \* the vault directory: [dir, files]
    vault,   \* Option<Vault>: VaultDaemon.vault; in SpecVault the caller's vault
    audit,   \* Option<AuditLog>: VaultDaemon.audit; in SpecAudit the caller's log
    clock,   \* the number of uuids drawn so far; Utc::now() reads it too
    ret,     \* SpecVault, SpecAudit: the last call and what it returned
    mutex,   \* Spec: the connection whose handler holds the daemon's Mutex
    conn,    \* Spec: the state of each connection's handle_connection task
    disk,    \* SpecCrash: what stable storage holds of the vault directory,
             \* [dir, files] as fs; fs is what the running system reads
             \* back. The other specifications neither crash nor lose
             \* power: they never read disk and leave it alone.
    call,    \* SpecCrash: the save_encrypted call in progress, None when
             \* no add_entry or delete_entry is under way; SpecSteps: the
             \* handler in progress, its connection and what it is to do
    hist     \* history: what the callers have done so far:
             \*   created_with  the passphrase given to Vault::create, by the
             \*                 caller or by the daemon's handle_unlock
             \*   added         the entries add_entry returned Ok for, in order
             \*   kept          of added, the entries not deleted since: a
             \*                 delete_entry that returned Ok(true) takes the
             \*                 first with its id away
             \*   removed       the ids delete_entry returned Ok(true) for
             \*   reopened      the vault in hand came from Vault::open, and
             \*                 no entry was added or deleted since
             \*   appended      the number of successful audit appends
             \*   tampered      the audit file was rewritten behind the log
             \*   acquired      Spec: the requests, each the pair of its
             \*                 connection and its number on the connection,
             \*                 in the order they acquired the daemon's Mutex
             \*   events        Spec: for each time a handler made audit.enc
             \*                 grow, in order: the request, its cmd and the
             \*                 uuid the handler drew for the record
             \*   gone          SpecSteps: the connections whose client went
             \*                 away while its request was being handled

vars == <<fs, vault, audit, clock, ret, mutex, conn, hist, disk, call>>

\* ------------------------------------------------------------------------
\* Inputs and bounds
\* ------------------------------------------------------------------------

\* The number of add_entry calls of a run.
MaxAdds == 2

Passphrases == {"correct", "wrong"}

\* generate_salt() returns one of these.
Salts == {RandomSalt}


\* The categories the callers name in their requests.
InputCategories == {"authentication", "patterns"}

\* The (entry_type, name, value, username) the callers create entries from.
EntryInputs ==
    {[entry_type |-> "password", name |-> "GitHub",
      value |-> "ghp_xxxxxxxxxxxx", username |-> Some("adam")],
     [entry_type |-> "api_key", name |-> "Gmail",
      value |-> "my_secret_password", username |-> None]}

\* VaultEntry::new(..) followed by with_username when a username is given.
NewEntry(category, in, id, now) ==
    LET e == VaultEntry_new(category, in.entry_type, in.name, in.value, id, now)
    IN  IF in.username.some THEN with_username(e, in.username.val) ELSE e

\* The connections the listener accepts.
Conns == {"c1", "c2"}

\* A connection nobody has made yet.
NotAccepted ==
    [pc |-> "unconnected", line |-> None, req |-> None, response |-> None,
     nread |-> 0, nwritten |-> 0, answered |-> 0, invalid |-> 0, result |-> None]

Init ==
    /\ fs = NoDir
    /\ vault = None
    /\ audit = None
    /\ clock = 0
    /\ mutex = None
    /\ conn = [c \in Conns |-> NotAccepted]
    /\ disk = NoDir
    /\ call = None
    /\ ret = [op |-> "none", arg |-> Unit, res |-> Ok(Unit), was_unlocked |-> FALSE]
    /\ hist = [created_with |-> None, added |-> <<>>, kept |-> <<>>, removed |-> {},
               reopened |-> FALSE, appended |-> 0, tampered |-> FALSE,
               acquired |-> <<>>, events |-> <<>>, gone |-> {}]

\* ------------------------------------------------------------------------
\* SpecVault: a caller of the Vault API
\* ------------------------------------------------------------------------

\* What a caller keeps of a call: the operation, its argument, its result,
\* and whether the vault was unlocked when the call was made.
Ret(op, arg, res) ==
    [op |-> op, arg |-> arg, res |-> res,
     was_unlocked |-> vault.some /\ is_unlocked(vault.val)]

\* A sequence without its element at index pos.
Without(entries, pos) ==
    SubSeq(entries, 1, pos - 1) \o SubSeq(entries, pos + 1, Len(entries))

\* The passphrase the caller creates the vault with.
CreatePassphrases == {"correct"}

\* let vault = Vault::create(path, passphrase)
VCreate(passphrase, salt) ==
    /\ ~fs.dir
    /\ ~vault.some
    /\ LET r == Vault_create(fs, passphrase, salt, RandomKey, FileNonce, clock)
       IN  /\ fs' = r.fs
           /\ vault' = Some(r.res.val)
           /\ ret' = Ret("create", passphrase, Ok(Unit))
    /\ hist' = [hist EXCEPT !.created_with = Some(passphrase)]
    /\ UNCHANGED <<audit, clock>>
    /\ UNCHANGED <<mutex, conn, disk, call>>

\* vault.lock()
VLock ==
    /\ vault.some
    /\ vault' = Some(Vault_lock(vault.val))
    /\ ret' = Ret("lock", Unit, Ok(Unit))
    /\ UNCHANGED <<fs, audit, clock, hist>>
    /\ UNCHANGED <<mutex, conn, disk, call>>

\* drop(vault)
VDrop ==
    /\ vault.some
    /\ vault' = None
    /\ ret' = Ret("drop", Unit, Ok(Unit))
    /\ UNCHANGED <<fs, audit, clock, hist>>
    /\ UNCHANGED <<mutex, conn, disk, call>>

\* let vault = Vault::open(path)
VOpen ==
    /\ fs.dir
    /\ ~vault.some
    /\ LET r == Vault_open(fs)
       IN  /\ vault' = IF r.ok THEN Some(r.val) ELSE None
           /\ ret' = Ret("open", Unit, IF r.ok THEN Ok(Unit) ELSE r)
           /\ hist' = [hist EXCEPT !.reopened = r.ok]
    /\ UNCHANGED <<fs, audit, clock>>
    /\ UNCHANGED <<mutex, conn, disk, call>>

\* vault.unlock(passphrase)
VUnlock(passphrase) ==
    /\ vault.some
    /\ LET r == Vault_unlock(vault.val, fs, passphrase)
       IN  /\ vault' = Some(r.vault)
           /\ ret' = Ret("unlock", passphrase, r.res)
    /\ UNCHANGED <<fs, audit, clock, hist>>
    /\ UNCHANGED <<mutex, conn, disk, call>>

\* vault.add_entry(VaultEntry::new(..))
VAdd(category, in) ==
    /\ vault.some
    /\ clock < MaxAdds
    /\ LET entry == NewEntry(category, in, clock + 1, clock + 1)
           r == add_entry(vault.val, fs, entry, FileNonce)
       IN  /\ vault' = Some(r.vault)
           /\ fs' = r.fs
           /\ ret' = Ret("add_entry", entry, r.res)
           /\ hist' = IF r.res.ok
                      THEN [hist EXCEPT !.added = Append(@, entry),
                                        !.kept = Append(@, entry),
                                        !.reopened = FALSE]
                      ELSE hist
    /\ clock' = clock + 1
    /\ UNCHANGED audit
    /\ UNCHANGED <<mutex, conn, disk, call>>

\* vault.add_entry(entry.clone()), entry one the caller has added before:
\* VaultEntry is Clone and its id is a public field.
VAddClone(i) ==
    /\ vault.some
    /\ i \in 1..Len(hist.added)
    /\ Len(hist.added) < MaxAdds
    /\ LET entry == hist.added[i]
           r == add_entry(vault.val, fs, entry, FileNonce)
       IN  /\ vault' = Some(r.vault)
           /\ fs' = r.fs
           /\ ret' = Ret("add_entry", entry, r.res)
           /\ hist' = IF r.res.ok
                      THEN [hist EXCEPT !.added = Append(@, entry),
                                        !.kept = Append(@, entry),
                                        !.reopened = FALSE]
                      ELSE hist
    /\ UNCHANGED <<audit, clock>>
    /\ UNCHANGED <<mutex, conn, disk, call>>

\* vault.get_entry(&id)
VGet(id) ==
    /\ vault.some
    /\ LET r == get_entry(vault.val, fs, id)
       IN  /\ vault' = Some(r.vault)
           /\ \E res \in (IF ~r.res.ok THEN {r.res}
                          ELSE IF r.found = {} THEN {Ok(None)}
                          ELSE {Ok(Some(e)) : e \in r.found}) :
                 ret' = Ret("get_entry", id, res)
    /\ UNCHANGED <<fs, audit, clock, hist>>
    /\ UNCHANGED <<mutex, conn, disk, call>>

\* vault.list_entries(category)
VList(category) ==
    /\ vault.some
    /\ LET r == list_entries(vault.val, fs, category)
       IN  /\ vault' = Some(r.vault)
           /\ ret' = Ret("list_entries", category, r.res)
    /\ UNCHANGED <<fs, audit, clock, hist>>
    /\ UNCHANGED <<mutex, conn, disk, call>>

\* vault.delete_entry(&id)
VDelete(id) ==
    /\ vault.some
    /\ LET r == delete_entry(vault.val, fs, id, FileNonce)
       IN  /\ vault' = Some(r.vault)
           /\ fs' = r.fs
           /\ ret' = Ret("delete_entry", id, r.res)
           /\ hist' = IF r.res.ok /\ r.res.val
                      THEN [hist EXCEPT !.removed = @ \cup {id},
                                        !.kept = Without(@, position(@, id)),
                                        !.reopened = FALSE]
                      ELSE hist
    /\ UNCHANGED <<audit, clock>>
    /\ UNCHANGED <<mutex, conn, disk, call>>

\* The ids a caller asks for: those drawn so far and one not drawn yet.
Ids == 1..(clock + 1)

NextVault ==
    \/ \E p \in CreatePassphrases, s \in Salts : VCreate(p, s)
    \/ VLock
    \/ VDrop
    \/ VOpen
    \/ \E p \in Passphrases : VUnlock(p)
    \/ \E c \in InputCategories, in \in EntryInputs : VAdd(c, in)
    \/ \E i \in 1..MaxAdds : VAddClone(i)
    \/ \E id \in Ids : VGet(id)
    \/ \E c \in InputCategories : VList(c)
    \/ \E id \in Ids : VDelete(id)

SpecVault == Init /\ [][NextVault]_vars

\* ------------------------------------------------------------------------
\* SpecOlder: the caller of the Vault API, and a vault directory that a build
\* with another baseline of key-derivation parameters has created
\* ------------------------------------------------------------------------

\* The ARGON2_* constants of a build with another baseline:
\* <<memory KiB, iterations, parallelism>>.
OlderParams == <<65536, 3, 4>>

\* The directory Vault::create leaves when the crate is built with params as
\* its ARGON2_* constants: VaultMeta::default() records them and
\* derive_master_key derives under them.
Vault_create_under(params, fs0, passphrase, salt, dek, nonce, now) ==
    LET meta == [VaultMeta_default(salt, now) EXCEPT
                    !.kdf_memory_kib = params[1],
                    !.kdf_iterations = params[2],
                    !.kdf_parallelism = params[3]]
        master_key == argon2id(passphrase, salt, params)
        category_key(path) ==
            derive_subkey(master_key,
                          context_string(CHOOSE cat \in Categories :
                                            filename(cat) = path))
    IN  [dir   |-> TRUE,
         files |->
            [p \in Paths |->
                CASE p = "dek.enc" ->
                       Some(encrypt(expose(dek), derive_subkey(master_key, "kek"),
                                    nonce))
                  [] p = "vault.meta" -> Some(VaultMeta_to_vec(meta))
                  [] p = "audit.enc" -> fs0.files[p]
                  [] OTHER ->
                       save_encrypted(fs0, p,
                                      CategoryData_to_vec(CategoryData_default),
                                      category_key(p), nonce).fs.files[p]]]

\* The older build creates the vault; the caller, built with the current
\* constants, finds the directory.
VCreateOlder(passphrase, salt) ==
    /\ ~fs.dir
    /\ ~vault.some
    /\ fs' = Vault_create_under(OlderParams, fs, passphrase, salt, RandomKey,
                                FileNonce, clock)
    /\ ret' = Ret("create_older", passphrase, Ok(Unit))
    /\ hist' = [hist EXCEPT !.created_with = Some(passphrase)]
    /\ UNCHANGED <<vault, audit, clock>>
    /\ UNCHANGED <<mutex, conn, disk, call>>

NextOlder ==
    \/ NextVault
    \/ \E p \in CreatePassphrases, s \in Salts : VCreateOlder(p, s)

SpecOlder == Init /\ [][NextOlder]_vars

\* ------------------------------------------------------------------------
\* Claims on the Vault API (SpecVault)
\* ------------------------------------------------------------------------

\* ------------------------------------------------------------------------
\* SpecAudit: a caller of the AuditLog API
\* ------------------------------------------------------------------------

\* The number of audit entries created in a run.
MaxAppends == 2

\* The keys a caller opens the log with (SecureKey::generate()).
AuditKeys == {RandomKey, [random |-> "k1"]}

\* The (entry_id, entry_name, category, agent_id, purpose) of log_access calls.
AccessInputs ==
    {[entry_id |-> 7, entry_name |-> "Gmail", category |-> "authentication",
      agent_id |-> Some("email-agent"), purpose |-> Some("send email")],
     [entry_id |-> 7, entry_name |-> "Gmail", category |-> "authentication",
      agent_id |-> None, purpose |-> None]}

\* The (reason, agent_id, category) of log_denial calls.
DenialInputs ==
    {[reason |-> "policy", agent_id |-> Some("email-agent"),
      category |-> Some("financial")],
     [reason |-> "policy", agent_id |-> None, category |-> None]}

\* let log = AuditLog::open(path, key)
AOpen(key) ==
    /\ ~audit.some
    /\ LET r == AuditLog_open(fs, key)
       IN  /\ audit' = IF r.ok THEN Some(r.val) ELSE None
           /\ ret' = Ret("open_log", key, IF r.ok THEN Ok(Unit) ELSE r)
    /\ UNCHANGED <<fs, vault, clock, hist>>
    /\ UNCHANGED <<mutex, conn, disk, call>>

\* drop(log)
AClose ==
    /\ audit.some
    /\ audit' = None
    /\ ret' = Ret("close_log", Unit, Ok(Unit))
    /\ UNCHANGED <<fs, vault, clock, hist>>
    /\ UNCHANGED <<mutex, conn, disk, call>>

\* What an append leaves behind.
Appended(op, r) ==
    /\ audit' = Some(r.log)
    /\ fs' = r.fs
    /\ ret' = Ret(op, Unit, r.res)
    /\ hist' = IF r.res.ok THEN [hist EXCEPT !.appended = @ + 1] ELSE hist
    /\ clock' = clock + 1
    /\ UNCHANGED vault
    /\ UNCHANGED <<mutex, conn, disk, call>>

\* log.log_unlock()
ALogUnlock ==
    /\ audit.some
    /\ clock < MaxAppends
    /\ Appended("log_unlock",
                log_unlock(audit.val, fs, clock + 1, clock + 1, FileNonce))

\* log.log_lock()
ALogLock ==
    /\ audit.some
    /\ clock < MaxAppends
    /\ Appended("log_lock",
                log_lock(audit.val, fs, clock + 1, clock + 1, FileNonce))

\* log.log_access(entry_id, entry_name, category, agent_id, purpose)
ALogAccess(in) ==
    /\ audit.some
    /\ clock < MaxAppends
    /\ Appended("log_access",
                log_access(audit.val, fs, in.entry_id, in.entry_name, in.category,
                           in.agent_id, in.purpose, clock + 1, clock + 1, FileNonce))

\* log.log_denial(reason, agent_id, category)
ALogDenial(in) ==
    /\ audit.some
    /\ clock < MaxAppends
    /\ Appended("log_denial",
                log_denial(audit.val, fs, in.reason, in.agent_id, in.category,
                           clock + 1, clock + 1, FileNonce))

\* log.verify_chain()
AVerify ==
    /\ audit.some
    /\ ret' = Ret("verify_chain", Unit, verify_chain(audit.val, fs))
    /\ UNCHANGED <<fs, vault, audit, clock, hist>>
    /\ UNCHANGED <<mutex, conn, disk, call>>

\* The fields of a persisted record other than entry_hash.
TamperFields ==
    {"id", "timestamp", "event_type", "entry_id", "entry_name", "category",
     "agent_id", "origin_chain", "purpose", "granted", "denial_reason",
     "target_domain", "previous_hash"}

\* Values, other than the one it holds, that a field of a record can be
\* changed to.
TamperValues(field, old) ==
    CASE field \in {"id", "timestamp"} -> {old + 100}
      [] field = "event_type" -> {"anomaly_detected", "auth_use"} \ {old}
      [] field = "entry_id" ->
           IF old.some THEN {None, Some(old.val + 100)} ELSE {Some(99)}
      [] field = "category" ->
           IF old.some THEN {None} \cup ({Some("health"), Some("personal")} \ {old})
           ELSE {Some("health")}
      [] field = "origin_chain" ->
           IF old.some THEN {None} ELSE {Some(<<"evil-agent">>)}
      [] field = "granted" -> {~old}
      [] field = "previous_hash" ->
           {Hex("ffffffff"), GENESIS_HASH, blake3(<<>>)} \ {old}
      [] OTHER ->
           IF old.some THEN {None} \cup ({Some("x"), Some("y")} \ {old})
           ELSE {Some("x")}

\* The lines of a log with field f of record i set to v, nothing recomputed.
Tampered(lines, i, f, v) == [lines EXCEPT ![i] = [@ EXCEPT ![f] = v]]

\* Someone who holds the key rewrites audit.enc with one field of one record
\* changed, and recomputes nothing.
ATamper(i, field) ==
    /\ audit.some
    /\ ~hist.tampered
    /\ LET content == read_content(fs, audit.val.key)
       IN  /\ content.ok
           /\ i \in 1..Len(content.val)
           /\ \E value \in TamperValues(field, content.val[i][field]) :
                 fs' = [fs EXCEPT !.files["audit.enc"] =
                           Some(encrypt(Tampered(content.val, i, field, value),
                                        audit.val.key, FileNonce))]
    /\ ret' = Ret("tamper", <<i, field>>, Ok(Unit))
    /\ hist' = [hist EXCEPT !.tampered = TRUE]
    /\ UNCHANGED <<vault, audit, clock>>
    /\ UNCHANGED <<mutex, conn, disk, call>>

NextAudit ==
    \/ \E key \in AuditKeys : AOpen(key)
    \/ AClose
    \/ ALogUnlock
    \/ ALogLock
    \/ \E in \in AccessInputs : ALogAccess(in)
    \/ \E in \in DenialInputs : ALogDenial(in)
    \/ AVerify
    \/ \E i \in 1..MaxAppends, field \in TamperFields : ATamper(i, field)

SpecAudit == Init /\ [][NextAudit]_vars

\* The entries the callers have added to a category and not deleted, in the
\* order of their add_entry calls.
AddedTo(category) ==
    LET Kept(e) == e.category = category
    IN  SelectSeq(hist.kept, Kept)

\* C2: Vault::unlock on a Locked vault with a passphrase other than the one
\* given to create returns an error and leaves the vault Locked: is_unlocked()
\* is false and no master key, kek, dek or category key is held.
C2_WrongPassphraseStaysLocked ==
    (/\ ret.op = "unlock"
     /\ ~ret.was_unlocked
     /\ hist.created_with.some
     /\ ret.arg # hist.created_with.val)
    => /\ ~ret.res.ok
       /\ vault.some
       /\ ~is_unlocked(vault.val)
       /\ ~vault.val.master_key.some
       /\ ~vault.val.kek.some
       /\ ~vault.val.dek.some
       /\ DOMAIN vault.val.category_keys = {}

C2_Witness ==
    /\ ret.op = "unlock"
    /\ ~ret.was_unlocked
    /\ hist.created_with.some
    /\ ret.arg # hist.created_with.val
    /\ ~ret.res.ok
    /\ Len(hist.added) > 0

\* C3: once entries were added across the categories, a vault obtained by
\* Vault::open after the last add and unlocked with the creation passphrase
\* lists, for each category, the metadata of exactly the entries added to it,
\* in insertion order.
C3_RoundTripList ==
    (/\ ret.op = "list_entries"
     /\ ret.was_unlocked
     /\ hist.reopened
     /\ hist.removed = {})
    => LET want == AddedTo(ret.arg)
       IN  ret.res = Ok([i \in 1..Len(want) |-> EntryMetadata(want[i])])

C3_Witness ==
    /\ ret.op = "list_entries"
    /\ ret.was_unlocked
    /\ hist.reopened
    /\ hist.removed = {}
    /\ ret.res.ok
    /\ Len(ret.res.val) = 2
    /\ Len(hist.added) = 2

\* C4: add_entry(e) on an unlocked vault returns e.id, and a later
\* get_entry with that id returns an entry with e's name and value bytes, in
\* the same session and after lock, open and unlock.
C4_AddThenGet ==
    /\ (ret.op = "add_entry" /\ ret.was_unlocked) => ret.res = Ok(ret.arg.id)
    /\ (ret.op = "get_entry" /\ ret.was_unlocked)
       => \A i \in 1..Len(hist.added) :
             (hist.added[i].id = ret.arg /\ ret.arg \notin hist.removed)
             => /\ ret.res.ok
                /\ ret.res.val.some
                /\ ret.res.val.val.id = ret.arg
                /\ ret.res.val.val.name = hist.added[i].name
                /\ ret.res.val.val.value = hist.added[i].value

C4_Witness ==
    /\ ret.op = "get_entry"
    /\ ret.was_unlocked
    /\ hist.reopened
    /\ ret.res.ok
    /\ ret.res.val.some
    /\ ret.res.val.val.name = "GitHub"
    /\ ret.res.val.val.value = "ghp_xxxxxxxxxxxx"

\* C7: list_entries(c) on an unlocked vault returns, in insertion order, one
\* EntryMetadata for each entry stored in c and none from another category;
\* no item carries a value or notes; the list is empty for a category that
\* holds no entry.
C7_ListIsMetadataOfCategory ==
    (ret.op = "list_entries" /\ ret.was_unlocked)
    => LET want == AddedTo(ret.arg)
       IN  /\ ret.res.ok
           /\ Len(ret.res.val) = Len(want)
           /\ \A i \in 1..Len(want) :
                 LET m == ret.res.val[i]
                 IN  /\ DOMAIN m = {"id", "category", "entry_type", "name",
                                    "username", "url", "tags"}
                     /\ m.id = want[i].id
                     /\ m.category = ret.arg
                     /\ m.entry_type = want[i].entry_type
                     /\ m.name = want[i].name
                     /\ m.username = want[i].username
                     /\ m.url = want[i].url
                     /\ m.tags = want[i].tags

C7_Witness ==
    /\ ret.op = "list_entries"
    /\ ret.was_unlocked
    /\ ret.res.ok
    /\ Len(ret.res.val) = 1
    /\ \E i \in 1..Len(hist.added) : hist.added[i].category # ret.arg


\* ------------------------------------------------------------------------
\* Claims on the AuditLog API (SpecAudit)
\* ------------------------------------------------------------------------

\* C5: after any sequence of successful appends made through log_unlock,
\* log_lock, log_access and log_denial on one AuditLog, verify_chain()
\* returns true: the first record's previous_hash is the genesis hash, every
\* later record's previous_hash is the entry_hash of the record before it,
\* and every record's entry_hash verifies.
C5_AppendsKeepChainValid ==
    (audit.some /\ ~hist.tampered) =>
        LET entries == read_all(audit.val, fs)
        IN  /\ entries.ok
            /\ Len(entries.val) = hist.appended
            /\ \A i \in 1..Len(entries.val) :
                  /\ entries.val[i].previous_hash =
                        IF i = 1 THEN GENESIS_HASH ELSE entries.val[i - 1].entry_hash
                  /\ verify_hash(entries.val[i])
            /\ verify_chain(audit.val, fs) = Ok(TRUE)
            /\ ret.op = "verify_chain" => ret.res = Ok(TRUE)

C5_Witness ==
    /\ ret.op = "verify_chain"
    /\ ~hist.tampered
    /\ hist.appended >= 2
    /\ ret.res = Ok(TRUE)

\* C6: changing any field other than entry_hash of any persisted record,
\* without recomputing hashes, makes verify_chain() return false; and for a
\* single entry, changing a field without recomputing makes verify_hash()
\* return false.
C6_TamperingIsDetected ==
    /\ (ret.op = "verify_chain" /\ hist.tampered) => ret.res = Ok(FALSE)
    /\ (audit.some /\ ~hist.tampered) =>
          LET content == read_content(fs, audit.val.key)
          IN  /\ content.ok
              /\ \A i \in 1..Len(content.val) : \A field \in TamperFields :
                    \A value \in TamperValues(field, content.val[i][field]) :
                       LET lines == Tampered(content.val, i, field, value)
                           entry == AuditEntry_from_str(lines[i])
                           fs2   == [fs EXCEPT !.files["audit.enc"] =
                                       Some(encrypt(lines, audit.val.key, FileNonce))]
                       IN  /\ entry.ok
                           /\ ~verify_hash(entry.val)
                           /\ verify_chain(audit.val, fs2) = Ok(FALSE)

C6_Witness ==
    /\ ret.op = "verify_chain"
    /\ hist.tampered
    /\ hist.appended >= 2
    /\ ret.res = Ok(FALSE)


\* ------------------------------------------------------------------------
\* Spec: run_daemon and its handle_connection tasks
\* ------------------------------------------------------------------------

\* The number of lines the clients send in a run, all connections together.
MaxRequests == 3

\* The lines a client sends.  The id is the one the first entry gets that is
\* created after one Unlock: the Unlock draws a uuid for its audit record, the
\* Create the next one.
Lines ==
    {Json([cmd |-> "unlock", passphrase |-> "correct"]),
     Json([cmd |-> "unlock", passphrase |-> "wrong"]),
     Json([cmd |-> "lock"]),
     Json([cmd |-> "status"]),
     Json([cmd |-> "list", category |-> "authentication"]),
     Json([cmd |-> "get", id |-> 2, agent_id |-> "email-agent",
           purpose |-> "send email"]),
     Json([cmd |-> "create",
           entry |-> [category |-> "authentication", entry_type |-> "password",
                      name |-> "GitHub",
                      value |-> base64_encode("ghp_xxxxxxxxxxxx"),
                      username |-> "adam"]]),
     Json([cmd |-> "create",
           entry |-> [category |-> "authentication", entry_type |-> "password",
                      name |-> "GitHub", value |-> [text |-> "not base64!"],
                      username |-> "adam"]]),
     Json([cmd |-> "delete", id |-> 2]),
     Json([cmd |-> "use_for_auth", id |-> 2, target_url |-> "https://github.com",
           agent_id |-> "email-agent", purpose |-> "send email"]),
     Json([cmd |-> "bogus"]),
     Json([cmd |-> "get"]),
     NotJson("garbage"),
     NotUtf8}

\* The lines read so far.
TotalRead == conn["c1"].nread + conn["c2"].nread

\* listener.accept() and tokio::spawn(handle_connection(stream, daemon))
Accept(c) ==
    /\ conn[c].pc = "unconnected"
    /\ conn' = [conn EXCEPT ![c].pc = "read"]
    /\ UNCHANGED <<fs, vault, audit, clock, ret, mutex, hist, disk, call>>

\* A reader that takes the next line while a response is still to be written.
ReadLine_pipelined(c, line) ==
    /\ conn[c].pc \in {"read", "write"}
    /\ TotalRead < MaxRequests
    /\ LET parsed == Request_from_str(line)
           k == conn[c].nread + 1
       IN  conn' = [conn EXCEPT ![c] =
              IF ~line.utf8
              THEN [@ EXCEPT !.pc = "returned", !.line = Some(line), !.nread = k,
                             !.req = None, !.invalid = @ + 1,
                             !.result =
                                Some(Err("stream did not contain valid UTF-8"))]
              ELSE IF parsed.ok
              THEN [@ EXCEPT !.pc = "lock", !.line = Some(line), !.nread = k,
                             !.req = Some(parsed.val)]
              ELSE [@ EXCEPT !.pc = "write", !.line = Some(line), !.nread = k,
                             !.req = None, !.invalid = @ + 1,
                             !.response =
                                Some([for |-> k,
                                      body |-> Response_error_fmt("Invalid request",
                                                                  parsed.err)])]]
    /\ UNCHANGED <<fs, vault, audit, clock, ret, mutex, hist, disk, call>>

\* reader.read_line(&mut line) takes a line from the stream: bytes that are
\* not UTF-8 are an error of read_line, which "?" returns; serde_json::from_str
\* parses any other line: a request goes on to daemon.lock(), a parse error
\* is the response.
ReadLine(c, line) ==
    /\ conn[c].pc = "read"
    /\ TotalRead < MaxRequests
    /\ LET parsed == Request_from_str(line)
           k == conn[c].nread + 1
       IN  conn' = [conn EXCEPT ![c] =
              IF ~line.utf8
              THEN [@ EXCEPT !.pc = "returned", !.line = Some(line), !.nread = k,
                             !.req = None, !.invalid = @ + 1,
                             !.result =
                                Some(Err("stream did not contain valid UTF-8"))]
              ELSE IF parsed.ok
              THEN [@ EXCEPT !.pc = "lock", !.line = Some(line), !.nread = k,
                             !.req = Some(parsed.val)]
              ELSE [@ EXCEPT !.pc = "write", !.line = Some(line), !.nread = k,
                             !.req = None, !.invalid = @ + 1,
                             !.response =
                                Some([for |-> k,
                                      body |-> Response_error_fmt("Invalid request",
                                                                  parsed.err)])]]
    /\ UNCHANGED <<fs, vault, audit, clock, ret, mutex, hist, disk, call>>

\* read_line returns 0: the client closed the connection; break, Ok(()).
ReadEof(c) ==
    /\ conn[c].pc = "read"
    /\ conn' = [conn EXCEPT ![c].pc = "returned", ![c].result = Some(Ok(Unit))]
    /\ UNCHANGED <<fs, vault, audit, clock, ret, mutex, hist, disk, call>>

\* A lock() that does not wait for the Mutex to be free.
Acquire_without_waiting(c) ==
    /\ conn[c].pc = "lock"
    /\ mutex' = Some(c)
    /\ conn' = [conn EXCEPT ![c].pc = "handle"]
    /\ hist' = [hist EXCEPT !.acquired = Append(@, <<c, conn[c].nread>>)]
    /\ UNCHANGED <<fs, vault, audit, clock, ret, disk, call>>

\* A lock that is granted to the first connection only.
Acquire_first_only(c) ==
    /\ c = "c1"
    /\ conn[c].pc = "lock"
    /\ mutex = None
    /\ mutex' = Some(c)
    /\ conn' = [conn EXCEPT ![c].pc = "handle"]
    /\ hist' = [hist EXCEPT !.acquired = Append(@, <<c, conn[c].nread>>)]
    /\ UNCHANGED <<fs, vault, audit, clock, ret, disk, call>>

\* daemon.lock().await completes: the Mutex is free and the task takes it.
Acquire(c) ==
    /\ conn[c].pc = "lock"
    /\ mutex = None
    /\ mutex' = Some(c)
    /\ conn' = [conn EXCEPT ![c].pc = "handle"]
    /\ hist' = [hist EXCEPT !.acquired = Append(@, <<c, conn[c].nread>>)]
    /\ UNCHANGED <<fs, vault, audit, clock, ret, disk, call>>

\* A handler that keeps the guard while the response is written.
Handle_keeping_guard(c) ==
    /\ conn[c].pc = "handle"
    /\ \E out \in handle(vault, audit, fs, clock, conn[c].req.val) :
          /\ vault' = out.vault
          /\ audit' = out.audit
          /\ fs' = out.fs
          /\ clock' = out.clock
          /\ conn' = [conn EXCEPT ![c].pc = "write",
                                  ![c].response = Some([for |-> conn[c].nread,
                                                        body |-> out.response])]
          /\ hist' = [hist EXCEPT
                        !.created_with =
                            IF ~fs.dir /\ out.fs.dir
                            THEN Some(conn[c].req.val.passphrase)
                            ELSE @,
                        !.events =
                            IF out.fs.files["audit.enc"] # fs.files["audit.enc"]
                            THEN Append(@, [by  |-> <<c, conn[c].nread>>,
                                            cmd |-> conn[c].req.val.cmd,
                                            id  |-> clock + 1])
                            ELSE @]
    /\ UNCHANGED <<mutex, ret, disk, call>>

\* daemon.handle(req).await, and the guard dropped at the end of the arm.
Handle(c) ==
    /\ conn[c].pc = "handle"
    /\ \E out \in handle(vault, audit, fs, clock, conn[c].req.val) :
          /\ vault' = out.vault
          /\ audit' = out.audit
          /\ fs' = out.fs
          /\ clock' = out.clock
          /\ conn' = [conn EXCEPT ![c].pc = "write",
                                  ![c].response = Some([for |-> conn[c].nread,
                                                        body |-> out.response])]
          /\ hist' = [hist EXCEPT
                        !.created_with =
                            IF ~fs.dir /\ out.fs.dir
                            THEN Some(conn[c].req.val.passphrase)
                            ELSE @,
                        !.events =
                            IF out.fs.files["audit.enc"] # fs.files["audit.enc"]
                            THEN Append(@, [by  |-> <<c, conn[c].nread>>,
                                            cmd |-> conn[c].req.val.cmd,
                                            id  |-> clock + 1])
                            ELSE @]
    /\ mutex' = None
    /\ UNCHANGED <<ret, disk, call>>

\* serde_json::to_string(&response) and writer.write_all(..) succeed; loop.
WriteResponse(c) ==
    /\ conn[c].pc = "write"
    /\ conn' = [conn EXCEPT ![c].pc = "read",
                            ![c].nwritten = @ + 1,
                            ![c].answered = conn[c].response.val.for]
    /\ UNCHANGED <<fs, vault, audit, clock, ret, mutex, hist, disk, call>>

\* writer.write_all(..) fails, the client is gone: "?" returns the error.
WriteFails(c) ==
    /\ conn[c].pc = "write"
    /\ conn' = [conn EXCEPT ![c].pc = "returned",
                            ![c].result = Some(Err("Broken pipe"))]
    /\ UNCHANGED <<fs, vault, audit, clock, ret, mutex, hist, disk, call>>

Next ==
    \/ \E c \in Conns : Accept(c)
    \/ \E c \in Conns, line \in Lines : ReadLine(c, line)
    \/ \E c \in Conns : ReadEof(c)
    \/ \E c \in Conns : Acquire(c)
    \/ \E c \in Conns : Handle(c)
    \/ \E c \in Conns : WriteResponse(c)
    \/ \E c \in Conns : WriteFails(c)

Spec == Init /\ [][Next]_vars


\* ------------------------------------------------------------------------
\* Claims on the daemon (Spec)
\* ------------------------------------------------------------------------

\* ------------------------------------------------------------------------
\* SpecFault: the daemon, with an audit log that can go bad on disk
\* ------------------------------------------------------------------------

\* A file whose bytes no longer authenticate under any key.
Damaged(blob) == [blob EXCEPT !.tag = <<"damaged">>]

\* audit.enc is damaged on disk: from now on decrypt fails on it, so that
\* AuditLog::open and AuditLog::append return an error.
AuditDamaged ==
    /\ fs.files["audit.enc"].some
    /\ fs.files["audit.enc"].val # Damaged(fs.files["audit.enc"].val)
    /\ fs' = [fs EXCEPT !.files["audit.enc"] = Some(Damaged(@.val))]
    /\ UNCHANGED <<vault, audit, clock, ret, mutex, conn, hist, disk, call>>

NextFault ==
    \/ Next
    \/ AuditDamaged

SpecFault == Init /\ [][NextFault]_vars

\* The commands that work on entries.
EntryCmds == {"list", "get", "create", "delete", "use_for_auth"}

\* The entry requests among the lines the clients send.
EntryRequests ==
    {Request_from_str(line).val :
        line \in {l \in Lines : /\ l.utf8
                                /\ Request_from_str(l).ok
                                /\ Request_from_str(l).val.cmd \in EntryCmds}}

\* The daemon's vault field, and the values of it that hold no unlocked vault.
NotUnlockedVaults ==
    {None, vault} \cup (IF vault.some THEN {Some(Vault_lock(vault.val))} ELSE {})

\* C1: while the daemon holds no vault, or a vault that is not unlocked,
\* every List, Get, Create, Delete and UseForAuth request gets the same error
\* response "Vault not unlocked", and leaves the daemon's fields, the
\* category files and the audit log as they were.
C1_NotUnlockedRefusesEntryRequests ==
    \A v \in NotUnlockedVaults :
        ~unlocked_vault(v) =>
            \A req \in EntryRequests :
                handle(v, audit, fs, clock, req) =
                    {Outcome(Response_error("Vault not unlocked"),
                             v, audit, fs, clock)}

C1_Witness ==
    \E c \in Conns :
        /\ conn[c].pc = "write"
        /\ conn[c].req.some
        /\ conn[c].req.val.cmd = "create"
        /\ fs.dir
        /\ vault = None
        /\ conn[c].response.val.body = Response_error("Vault not unlocked")

\* C8: at most one request is being handled by the VaultDaemon at any time:
\* the task of a connection is inside handle exactly while it holds the
\* daemon's Mutex, and every change of the daemon's fields or of the vault
\* directory is the one step of the handler that holds it.
C8_OneHandlerAtATime ==
    /\ [](\A c \in Conns : conn[c].pc = "handle" <=> mutex = Some(c))
    /\ [][(<<vault, audit, fs>>' # <<vault, audit, fs>>) =>
             \E c \in Conns :
                /\ mutex = Some(c)
                /\ conn[c].pc = "handle"
                /\ conn'[c].pc = "write"
                /\ mutex' = None
                /\ \A d \in Conns \ {c} : conn'[d] = conn[d]]_vars

C8_Witness ==
    /\ mutex = Some("c1")
    /\ conn["c1"].pc = "handle"
    /\ conn["c2"].pc = "lock"
    /\ vault.some

\* C9: on one connection the k-th response written answers the k-th request
\* read, and request k+1 is not read before response k is written.
C9_ResponsesInRequestOrder ==
    \A c \in Conns :
        /\ conn[c].nwritten <= conn[c].nread
        /\ conn[c].nread <= conn[c].nwritten + 1
        /\ conn[c].pc \in {"lock", "handle", "write"} =>
              conn[c].nread = conn[c].nwritten + 1
        /\ conn[c].pc \in {"unconnected", "read"} =>
              conn[c].nread = conn[c].nwritten
        /\ conn[c].pc = "write" =>
              /\ conn[c].response.some
              /\ conn[c].response.val.for = conn[c].nread
        /\ conn[c].nwritten > 0 => conn[c].answered = conn[c].nwritten

C9_Witness ==
    \E c \in Conns :
        /\ conn[c].pc = "read"
        /\ conn[c].nwritten = 2
        /\ conn[c].answered = 2
        /\ conn[c].response.val.body.status = "ok"

\* The last line taken from the stream of connection c is not a request.
InvalidLine(c) ==
    /\ conn[c].line.some
    /\ \/ ~conn[c].line.val.utf8
       \/ ~Request_from_str(conn[c].line.val).ok

\* C10: a line that does not parse as a request gets exactly one error
\* response on its connection, without the daemon's Mutex being taken or the
\* daemon's state changed; the handler then reads the next line, and a later
\* well-formed request on the connection is handled as on any other.
C10_InvalidLineGetsErrorResponse ==
    /\ [](\A c \in Conns : InvalidLine(c) =>
             /\ mutex # Some(c)
             /\ conn[c].pc \in {"write", "read", "returned"}
             /\ conn[c].response.some
             /\ conn[c].response.val.for = conn[c].nread
             /\ conn[c].response.val.body.status = "error"
             /\ conn[c].line.val.utf8 =>
                   conn[c].response.val.body =
                      Response_error_fmt("Invalid request",
                                         Request_from_str(conn[c].line.val).err)
             /\ conn[c].pc = "read" =>
                   /\ conn[c].nwritten = conn[c].nread
                   /\ conn[c].answered = conn[c].nread
             /\ conn[c].pc = "returned" =>
                   \/ conn[c].result = Some(Err("Broken pipe"))
                   \/ /\ conn[c].result = Some(Ok(Unit))
                      /\ conn[c].answered = conn[c].nread)
    /\ [][\A c \in Conns :
             /\ (conn[c].pc = "read" /\ conn'[c].pc = "write") =>
                   UNCHANGED <<vault, audit, fs, clock, mutex>>
             /\ (conn[c].invalid > 0 /\ conn[c].pc = "handle"
                 /\ conn'[c].pc = "write") =>
                   \E out \in handle(vault, audit, fs, clock, conn[c].req.val) :
                      /\ vault' = out.vault
                      /\ audit' = out.audit
                      /\ fs' = out.fs
                      /\ conn'[c].response.val.body = out.response]_vars


\* ------------------------------------------------------------------------
\* Claims on the states of a Vault (SpecVault)
\* ------------------------------------------------------------------------

\* C11: Vault::create returns a vault for which is_unlocked() is true,
\* Vault::open returns one for which is_unlocked() is false, and an unlock
\* with the passphrase the vault was created with makes is_unlocked() true.
C11_CreateUnlockedOpenLocked ==
    /\ ret.op = "create" => (vault.some /\ is_unlocked(vault.val))
    /\ ret.op = "open" => (ret.res.ok /\ vault.some /\ ~is_unlocked(vault.val))
    /\ (ret.op = "unlock" /\ hist.created_with.some
        /\ ret.arg = hist.created_with.val) =>
          (ret.res.ok /\ vault.some /\ is_unlocked(vault.val))

C11_Witness ==
    /\ ret.op = "unlock"
    /\ ~ret.was_unlocked
    /\ hist.reopened
    /\ ret.res.ok
    /\ is_unlocked(vault.val)

\* The failed call of a vault that holds no keys.
Refused(r) == ~r.res.ok

\* C12: after Vault::lock() is_unlocked() is false and the vault holds no
\* master key, kek, dek, category key or decrypted category; add_entry,
\* get_entry, list_entries and delete_entry return an error until an unlock
\* succeeds.
C12_LockedVaultHoldsNothing ==
    /\ ret.op = "lock" =>
          /\ ~is_unlocked(vault.val)
          /\ ~vault.val.master_key.some
          /\ ~vault.val.kek.some
          /\ ~vault.val.dek.some
          /\ DOMAIN vault.val.category_keys = {}
          /\ DOMAIN vault.val.unlocked_categories = {}
    /\ (ret.op \in {"add_entry", "get_entry", "list_entries", "delete_entry"}
        /\ ~ret.was_unlocked) => ~ret.res.ok
    /\ (vault.some /\ ~is_unlocked(vault.val)) =>
          /\ \A c \in InputCategories :
                /\ Refused(list_entries(vault.val, fs, c))
                /\ \A in \in EntryInputs :
                      Refused(add_entry(vault.val, fs,
                                        NewEntry(c, in, clock + 1, clock + 1),
                                        FileNonce))
          /\ \A id \in Ids :
                /\ Refused(get_entry(vault.val, fs, id))
                /\ Refused(delete_entry(vault.val, fs, id, FileNonce))

C12_Witness ==
    /\ ret.op = "get_entry"
    /\ ~ret.was_unlocked
    /\ ~hist.reopened
    /\ \E i \in 1..Len(hist.added) : hist.added[i].id = ret.arg
    /\ ~ret.res.ok


\* The entries of a category as its file holds them.
DiskEntries(v, fs0, category) ==
    LET loaded == load_category(v, fs0, category)
    IN  IF loaded.res.ok
        THEN loaded.vault.unlocked_categories[category].entries
        ELSE <<>>

\* The decrypted categories of a vault are what their files hold.
MemoryIsDisk(v, fs0) ==
    \A c \in DOMAIN v.unlocked_categories :
        v.unlocked_categories[c].entries = DiskEntries(v, fs0, c)

\* C13: delete_entry(id) returns true exactly when an entry with the id is
\* stored in some category; then exactly one such entry is removed, the other
\* entries of every category keep their contents and order, and the changed
\* category is persisted; when it returns false no category content and no
\* category file changes.
C13_DeleteRemovesExactlyOne ==
    (vault.some /\ is_unlocked(vault.val)) =>
        \A id \in Ids :
            LET r == delete_entry(vault.val, fs, id, FileNonce)
                holders == {i \in 1..Len(Category_all) :
                               position(DiskEntries(vault.val, fs, Category_all[i]),
                                        id) # 0}
            IN  /\ r.res.ok
                /\ r.res.val = (holders # {})
                /\ MemoryIsDisk(r.vault, r.fs)
                /\ IF holders = {}
                   THEN /\ r.fs = fs
                        /\ \A c \in Categories :
                              DiskEntries(r.vault, r.fs, c) =
                                 DiskEntries(vault.val, fs, c)
                   ELSE LET first == CHOOSE i \in holders :
                                        \A j \in holders : i <= j
                            es == DiskEntries(vault.val, fs, Category_all[first])
                        IN  \A c \in Categories :
                               DiskEntries(r.vault, r.fs, c) =
                                  IF c = Category_all[first]
                                  THEN Without(es, position(es, id))
                                  ELSE DiskEntries(vault.val, fs, c)

C13_Witness ==
    /\ ret.op = "delete_entry"
    /\ ret.was_unlocked
    /\ ret.res = Ok(TRUE)
    /\ Len(hist.added) = 2
    /\ hist.added[1].category = hist.added[2].category
    /\ Len(DiskEntries(vault.val, fs, hist.added[1].category)) = 1


\* C14: after any sequence of add_entry and delete_entry calls on the vault,
\* and of Create and Delete requests on the daemon, no two stored entries
\* share an id, neither within one category nor across categories.
C14_NoTwoEntriesShareAnId ==
    (vault.some /\ is_unlocked(vault.val)) =>
        \A c1 \in Categories, c2 \in Categories :
            LET es1 == DiskEntries(vault.val, fs, c1)
                es2 == DiskEntries(vault.val, fs, c2)
            IN  \A i \in 1..Len(es1), j \in 1..Len(es2) :
                   es1[i].id = es2[j].id => (c1 = c2 /\ i = j)


\* ------------------------------------------------------------------------
\* Claims on the daemon's handlers (Spec)
\* ------------------------------------------------------------------------

\* The categories field of an Unlock request.
UnlockCategories == {None, Some(<<"authentication">>)}

\* The files of the vault directory other than the audit log.
VaultFiles == Paths \ {"audit.enc"}

\* C15: an Unlock request creates a new vault only when the vault directory
\* does not exist; when it exists the daemon opens and unlocks the vault that
\* is there, and an Unlock with a wrong passphrase returns an error and leaves
\* vault.meta, dek.enc and every category file unchanged.
C15_UnlockCreatesOnlyWithoutDirectory ==
    \A p \in Passphrases, cats \in UnlockCategories :
        \A out \in handle_unlock(vault, audit, fs, clock, p, cats) :
            IF ~fs.dir
            THEN /\ out.response = Response_ok
                 /\ out.fs.dir
                 /\ out.fs.files["vault.meta"].some
                 /\ out.fs.files["dek.enc"].some
                 /\ out.vault.some
                 /\ is_unlocked(out.vault.val)
            ELSE /\ out.fs.dir
                 /\ \A path \in VaultFiles : out.fs.files[path] = fs.files[path]
                 /\ IF p = hist.created_with.val
                    THEN /\ out.response = Response_ok
                         /\ out.vault.some
                         /\ is_unlocked(out.vault.val)
                         /\ Ok(out.vault.val.meta) =
                               VaultMeta_from_slice(fs.files["vault.meta"].val)
                    ELSE /\ out.response.status = "error"
                         /\ out.vault = vault
                         /\ out.audit = audit
                         /\ out.fs = fs

C15_Witness ==
    \E c \in Conns :
        /\ conn[c].pc = "write"
        /\ conn[c].req.some
        /\ conn[c].req.val.cmd = "unlock"
        /\ fs.dir
        /\ conn[c].req.val.passphrase # hist.created_with.val
        /\ conn[c].response.val.body.status = "error"


\* C16: the key under which the daemon opens audit.enc on Unlock is
\* subkey(master, "audit"), master being the vault's master key: the key
\* derived from the passphrase under the salt stored in vault.meta.
C16_AuditKeyFromVaultMasterKey ==
    (vault.some /\ is_unlocked(vault.val) /\ audit.some) =>
        /\ vault.val.master_key.val =
              derive_master_key(hist.created_with.val, vault.val.meta.salt)
        /\ audit.val.key = derive_subkey(vault.val.master_key.val, "audit")


\* The agent_id and purpose fields of a Get request, both optional.
GetAgents == {None, Some("email-agent")}

GetPurposes == {None, Some("send email")}

\* The last line of audit.enc as the open log a reads it from the disk f.
LastRecord(f, a) ==
    read_content(f, a.val.key).val[Len(read_content(f, a.val.key).val)]

\* audit.enc in f holds the lines it holds in fs and one line more.
OneRecordAppended(f, a) ==
    /\ read_content(f, a.val.key).ok
    /\ Len(read_content(f, a.val.key).val) =
          Len(read_content(fs, audit.val.key).val) + 1
    /\ SubSeq(read_content(f, a.val.key).val, 1,
              Len(read_content(fs, audit.val.key).val)) =
          read_content(fs, audit.val.key).val

\* C17: a Get request answered ok with an entry has, while an audit log is
\* open and its append succeeds, appended exactly one entry_access record
\* with the entry's id, name and category and the request's agent_id and
\* purpose by the time the response is returned; a Get answered with
\* not-found or an error appends no record.
C17_GetAppendsOneAccessRecord ==
    \A id \in Ids, agent_id \in GetAgents, purpose \in GetPurposes :
        \A out \in handle_get(vault, audit, fs, clock, id, agent_id, purpose) :
            IF out.response.status = "ok"
            THEN (/\ audit.some
                  /\ log_access(audit.val, fs, id, out.response.data.val.name,
                                out.response.data.val.category, agent_id,
                                purpose, clock + 1, clock + 1, FileNonce).res.ok)
                 => /\ out.audit.some
                    /\ OneRecordAppended(out.fs, out.audit)
                    /\ LastRecord(out.fs, out.audit).event_type = "entry_access"
                    /\ LastRecord(out.fs, out.audit).granted
                    /\ LastRecord(out.fs, out.audit).entry_id = Some(id)
                    /\ out.response.data.val.id = id
                    /\ LastRecord(out.fs, out.audit).entry_name =
                          Some(out.response.data.val.name)
                    /\ LastRecord(out.fs, out.audit).category =
                          Some(out.response.data.val.category)
                    /\ LastRecord(out.fs, out.audit).agent_id = agent_id
                    /\ LastRecord(out.fs, out.audit).purpose = purpose
            ELSE /\ out.fs = fs
                 /\ out.audit = audit

C17_Witness ==
    \E c \in Conns :
        /\ conn[c].pc = "write"
        /\ conn[c].req.some
        /\ conn[c].req.val.cmd = "get"
        /\ conn[c].response.val.body.status = "ok"
        /\ audit.some
        /\ read_content(fs, audit.val.key).ok
        /\ LastRecord(fs, audit).event_type = "entry_access"
        /\ LastRecord(fs, audit).entry_id = Some(conn[c].req.val.id)
        /\ LastRecord(fs, audit).agent_id = conn[c].req.val.agent_id


\* The outcomes of a UseForAuth request for an id at the daemon's state.
UseForAuthOutcomes(id) ==
    handle_use_for_auth(vault, audit, fs, clock, id, "https://github.com",
                        "email-agent", "send email")

\* The response of a UseForAuth that found its entry.
NotPerformed ==
    Response_ok_with([auth_performed |-> FALSE,
                      message |-> "Auth execution not yet implemented",
                      target |-> "https://github.com"])

\* An entry with the id is stored in a category file of the daemon's vault.
Stored(id) ==
    \E c \in Categories : position(DiskEntries(vault.val, fs, c), id) # 0

\* An append to the daemon's open audit log returns Ok.
AppendSucceeds ==
    /\ audit.some
    /\ append(audit.val, fs,
              AuditEntry_new("EntryAccess", audit.val.last_hash,
                             clock + 1, clock + 1),
              FileNonce).res.ok

\* The outcome has appended one entry_access record for the id with the
\* agent_id and purpose of the UseForAuth request.
RecordedAuthAccess(out, id) ==
    /\ audit.some
    /\ out.audit.some
    /\ OneRecordAppended(out.fs, out.audit)
    /\ LastRecord(out.fs, out.audit).event_type = "entry_access"
    /\ LastRecord(out.fs, out.audit).entry_id = Some(id)
    /\ LastRecord(out.fs, out.audit).agent_id = Some("email-agent")
    /\ LastRecord(out.fs, out.audit).purpose = Some("send email")

\* C18 as stated: UseForAuth returns ok only when the vault is unlocked and
\* an entry with the id exists; it then records one entry_access event with
\* the request's agent_id and purpose and returns auth_performed = false
\* without the entry's value; in every other case it returns an error and
\* records nothing.
C18_UseForAuthAlwaysRecords ==
    \A id \in Ids :
        \A out \in UseForAuthOutcomes(id) :
            IF unlocked_vault(vault) /\ Stored(id)
            THEN /\ out.response = NotPerformed
                 /\ RecordedAuthAccess(out, id)
            ELSE /\ out.response.status = "error"
                 /\ out.fs = fs
                 /\ out.audit = audit

\* C18, amended: UseForAuth returns ok exactly when the vault is unlocked and
\* an entry with the id exists; the response then has auth_performed = false
\* and no entry value, and, while an audit log is open and its append
\* succeeds, one entry_access record with the request's agent_id and purpose
\* has been appended; without an open log or with a failed append the ok
\* response is the same and nothing is recorded; in every other case it
\* returns an error and records nothing.
C18_UseForAuthRecordsWhenLogWorks ==
    \A id \in Ids :
        \A out \in UseForAuthOutcomes(id) :
            IF unlocked_vault(vault) /\ Stored(id)
            THEN /\ out.response = NotPerformed
                 /\ IF AppendSucceeds
                    THEN RecordedAuthAccess(out, id)
                    ELSE out.fs = fs
            ELSE /\ out.response.status = "error"
                 /\ out.fs = fs
                 /\ out.audit = audit

C18_Witness ==
    \E c \in Conns :
        /\ conn[c].pc = "write"
        /\ conn[c].req.some
        /\ conn[c].req.val.cmd = "use_for_auth"
        /\ conn[c].response.val.body = NotPerformed
        /\ audit.some
        /\ read_content(fs, audit.val.key).ok
        /\ LastRecord(fs, audit).event_type = "entry_access"
        /\ LastRecord(fs, audit).purpose = Some(conn[c].req.val.purpose)


\* The requests among the lines the clients send.
Requests ==
    {Request_from_str(line).val :
        line \in {l \in Lines : l.utf8 /\ Request_from_str(l).ok}}

\* The vault_lock record of the daemon's open audit log can be appended.
LockAppendSucceeds ==
    /\ audit.some
    /\ log_lock(audit.val, fs, clock + 1, clock + 1, FileNonce).res.ok

\* The outcome has appended one vault_lock record through the audit handle
\* the daemon held before the request: under its key and after its last hash.
RecordedLock(out) ==
    /\ audit.some
    /\ OneRecordAppended(out.fs, audit)
    /\ LastRecord(out.fs, audit).event_type = "vault_lock"
    /\ LastRecord(out.fs, audit).previous_hash = audit.val.last_hash

\* The daemon the outcome leaves holds neither vault nor audit handle, reports
\* unlocked = false, rejects every entry request, and comes to hold a vault
\* again only by an Unlock request that is answered ok.
LockedAfter(out) ==
    /\ out.response = Response_ok
    /\ out.vault = None
    /\ out.audit = None
    /\ \A st \in handle_status(out.vault, out.audit, out.fs, out.clock) :
          st.response.data.val.unlocked = FALSE
    /\ \A req \in EntryRequests :
          handle(out.vault, out.audit, out.fs, out.clock, req) =
             {Outcome(Response_error("Vault not unlocked"),
                      None, None, out.fs, out.clock)}
    /\ \A req \in Requests :
          \A next \in handle(out.vault, out.audit, out.fs, out.clock, req) :
             next.vault.some =>
                /\ req.cmd = "unlock"
                /\ next.response = Response_ok
                /\ is_unlocked(next.vault.val)

\* C19 as stated: a Lock request on an unlocked daemon appends a vault_lock
\* record to the audit log before the vault and the audit handle are
\* dropped; afterwards the daemon holds neither, Status reports
\* unlocked = false, and every entry request is rejected until a later Unlock
\* succeeds.
C19_LockAlwaysRecords ==
    unlocked_vault(vault) =>
        \A out \in handle_lock(vault, audit, fs, clock) :
            /\ RecordedLock(out)
            /\ LockedAfter(out)

\* C19, amended: a Lock request on an unlocked daemon appends, while an audit
\* log is open and its append succeeds, a vault_lock record through the audit
\* handle before the vault and the handle are dropped, and otherwise appends
\* nothing; either way the daemon afterwards holds neither, Status reports
\* unlocked = false, and every entry request is rejected until a later Unlock
\* succeeds.
C19_LockRecordsWhenLogWorks ==
    unlocked_vault(vault) =>
        \A out \in handle_lock(vault, audit, fs, clock) :
            /\ IF LockAppendSucceeds THEN RecordedLock(out) ELSE out.fs = fs
            /\ LockedAfter(out)

C19_Witness ==
    \E c \in Conns :
        /\ conn[c].pc = "write"
        /\ conn[c].req.some
        /\ conn[c].req.val.cmd = "lock"
        /\ conn[c].response.val.body = Response_ok
        /\ vault = None
        /\ audit = None
        /\ LET key == derive_subkey(derive_master_key(hist.created_with.val,
                                                       ZeroSalt), "audit")
           IN  /\ read_content(fs, key).ok
               /\ Len(read_content(fs, key).val) >= 2
               /\ read_content(fs, key).val[Len(read_content(fs, key).val)]
                     .event_type = "vault_lock"


\* The key of the daemon's audit log: the key of the open log, or the key
\* handle_unlock derives from the passphrase of the vault.
AuditKey ==
    IF audit.some
    THEN audit.val.key
    ELSE derive_subkey(derive_master_key(hist.created_with.val, ZeroSalt), "audit")

\* The daemon's state with a working audit log in place of its own: no
\* audit.enc yet, which AuditLog::open and append take for an empty log,
\* and, while the daemon holds a vault, an open log on it.
WorkingFs == [fs EXCEPT !.files["audit.enc"] = None]

WorkingAudit ==
    IF vault.some
    THEN Some([key |-> AuditKey, last_hash |-> GENESIS_HASH])
    ELSE None

\* What a request leaves behind apart from the audit log: its response, the
\* daemon's vault and the files of the vault.
VaultOutcome(out) ==
    [response |-> out.response,
     vault    |-> out.vault,
     dir      |-> out.fs.dir,
     files    |-> [path \in VaultFiles |-> out.fs.files[path]]]

\* C20: a failure to open the audit log during Unlock, or a failed audit
\* append during Unlock, Lock, Get or UseForAuth, never changes the response
\* of the request: the vault operation succeeds or fails exactly as it would
\* with a working audit log.
C20_AuditFailureKeepsResponse ==
    \A req \in Requests :
        {VaultOutcome(out) : out \in handle(vault, audit, fs, clock, req)} =
        {VaultOutcome(out) :
            out \in handle(vault, WorkingAudit, WorkingFs, clock, req)}

C20_Witness ==
    \E c \in Conns :
        /\ conn[c].pc = "write"
        /\ conn[c].req.some
        /\ conn[c].req.val.cmd = "unlock"
        /\ conn[c].response.val.body = Response_ok
        /\ unlocked_vault(vault)
        /\ audit = None
        /\ ~AuditLog_open(fs, AuditKey).ok


\* The event type of the record the handler of a request with the cmd appends.
EventOf(cmd) ==
    CASE cmd = "unlock" -> "VaultUnlock"
      [] cmd = "lock" -> "VaultLock"
      [] cmd \in {"get", "use_for_auth"} -> "EntryAccess"
      [] OTHER -> "none"

\* The place of a request in the order of the acquisitions of the Mutex.
AcquiredAt(request) ==
    CHOOSE k \in 1..Len(hist.acquired) : hist.acquired[k] = request

\* C21: the records read_all reads back from the audit log are exactly the
\* events that were appended, in the order they were appended; with
\* concurrent connections that is the order in which the requests that
\* produced them acquired the daemon's Mutex.
C21_LogInLockOrder ==
    IF ~hist.created_with.some
    THEN hist.events = <<>>
    ELSE /\ read_all([key |-> AuditKey, last_hash |-> GENESIS_HASH], fs).ok
         /\ Len(read_all([key |-> AuditKey, last_hash |-> GENESIS_HASH], fs).val) =
               Len(hist.events)
         /\ \A i \in 1..Len(hist.events) :
               /\ read_all([key |-> AuditKey, last_hash |-> GENESIS_HASH],
                           fs).val[i].id = hist.events[i].id
               /\ read_all([key |-> AuditKey, last_hash |-> GENESIS_HASH],
                           fs).val[i].event_type = EventOf(hist.events[i].cmd)
               /\ \E k \in 1..Len(hist.acquired) :
                     hist.acquired[k] = hist.events[i].by
         /\ \A i, j \in 1..Len(hist.events) :
               i < j => AcquiredAt(hist.events[i].by) < AcquiredAt(hist.events[j].by)

C21_Witness ==
    /\ Len(hist.events) >= 2
    /\ hist.events[1].by[1] # hist.events[2].by[1]
    /\ hist.events[2].cmd = "get"
    /\ Len(read_all([key |-> AuditKey, last_hash |-> GENESIS_HASH], fs).val) = 2


\* The key-derivation parameters a vault.meta records.
StoredParams(meta) ==
    <<meta.kdf_memory_kib, meta.kdf_iterations, meta.kdf_parallelism>>

\* C22: unlock derives the master key with the key-derivation parameters
\* stored in the vault's vault.meta, so a vault whose vault.meta records
\* parameters other than the current baseline constants is still unlocked by
\* its passphrase.
C22_UnlockHonorsStoredParameters ==
    /\ (vault.some /\ is_unlocked(vault.val)) =>
          vault.val.master_key.val =
             argon2id(hist.created_with.val, vault.val.meta.salt,
                      StoredParams(vault.val.meta))
    /\ (ret.op = "unlock" /\ vault.some /\ hist.created_with.some
        /\ ret.arg = hist.created_with.val) =>
          /\ ret.res.ok
          /\ is_unlocked(vault.val)


\* The vaults a caller can have in hand over the vault directory: the
\* daemon's, that vault locked, and the one Vault::open returns.
VaultsInHand ==
    (IF vault.some THEN {vault.val, Vault_lock(vault.val)} ELSE {})
        \cup (IF fs.dir /\ Vault_open(fs).ok THEN {Vault_open(fs).val} ELSE {})

\* Every request a client can send, the Unlock requests with and without
\* categories.
AllRequests ==
    Requests \cup
        {[cmd |-> "unlock", passphrase |-> p, categories |-> cats] :
            p \in Passphrases, cats \in UnlockCategories}

\* The operation leaves the vault with the meta it had and, when it returns
\* a vault directory, the directory with the vault.meta it had.
KeepsMeta(v, r) ==
    /\ r.vault.meta = v.meta
    /\ "fs" \in DOMAIN r => r.fs.files["vault.meta"] = fs.files["vault.meta"]

\* C23: no operation after create changes vault.meta: open, unlock,
\* unlock_categories, lock, add_entry, get_entry, list_entries, delete_entry
\* and every daemon request on an existing vault leave the stored salt and
\* the rest of vault.meta unchanged.
C23_VaultMetaNeverChanges ==
    fs.files["vault.meta"].some =>
        /\ \A req \in AllRequests :
              \A out \in handle(vault, audit, fs, clock, req) :
                 out.fs.files["vault.meta"] = fs.files["vault.meta"]
        /\ Vault_open(fs).ok =>
              Ok(Vault_open(fs).val.meta) =
                 VaultMeta_from_slice(fs.files["vault.meta"].val)
        /\ \A v \in VaultsInHand :
              /\ Vault_lock(v).meta = v.meta
              /\ \A p \in Passphrases :
                    /\ KeepsMeta(v, Vault_unlock(v, fs, p))
                    /\ KeepsMeta(v, unlock_categories(v, fs, p, <<"authentication">>))
              /\ \A c \in InputCategories :
                    /\ KeepsMeta(v, list_entries(v, fs, c))
                    /\ \A in \in EntryInputs :
                          KeepsMeta(v, add_entry(v, fs,
                                                 NewEntry(c, in, clock + 1, clock + 1),
                                                 FileNonce))
              /\ \A id \in Ids :
                    /\ KeepsMeta(v, get_entry(v, fs, id))
                    /\ KeepsMeta(v, delete_entry(v, fs, id, FileNonce))

C23_Witness ==
    \E c \in Conns :
        /\ conn[c].pc = "write"
        /\ conn[c].req.some
        /\ conn[c].req.val.cmd = "delete"
        /\ conn[c].response.val.body = Response_ok
        /\ fs.files["vault.meta"].some
        /\ VaultMeta_from_slice(fs.files["vault.meta"].val).ok
        /\ VaultMeta_from_slice(fs.files["vault.meta"].val).val.salt = RandomSalt


\* ------------------------------------------------------------------------
\* SpecCrash: a caller of the Vault and AuditLog APIs on storage that can
\* fail, save_encrypted taken one system call at a time
\* ------------------------------------------------------------------------

\* File::create(path) opens with O_TRUNC: of an existing file no byte is left.
Truncated == [len |-> 0]

\* A file that write_all stopped writing part-way: the nonce, nothing more.
CutShort(blob) == [len |-> NONCE_LEN, nonce |-> blob.nonce]

\* file.sync_all(): stable storage holds what the file holds.
sync_all(d, fs0, path) == [d EXCEPT !.files[path] = fs0.files[path]]

\* The files of a new vault that Vault::create writes through save_encrypted.
CategoryPaths == {filename(c) : c \in Categories}

\* Vault::create(path, passphrase): the category files go through
\* save_encrypted, which ends with sync_all; dek.enc and vault.meta are
\* written with File::create and write_all, and nothing syncs them.
CCreate(passphrase, salt) ==
    /\ call = None
    /\ ~fs.dir
    /\ ~vault.some
    /\ LET r == Vault_create(fs, passphrase, salt, RandomKey, FileNonce, clock)
       IN  /\ fs' = r.fs
           /\ disk' = [dir   |-> TRUE,
                       files |-> [p \in Paths |-> IF p \in CategoryPaths
                                                  THEN r.fs.files[p]
                                                  ELSE disk.files[p]]]
           /\ vault' = Some(r.res.val)
           /\ ret' = Ret("create", passphrase, Ok(Unit))
    /\ hist' = [hist EXCEPT !.created_with = Some(passphrase)]
    /\ UNCHANGED <<audit, clock, mutex, conn, call>>

\* The category lists the caller gives to unlock_categories.
CategoryLists == {<<"patterns", "authentication">>}

\* vault.unlock_categories(passphrase, &categories)
VUnlockCategories(passphrase, categories) ==
    /\ vault.some
    /\ LET r == unlock_categories(vault.val, fs, passphrase, categories)
       IN  /\ vault' = Some(r.vault)
           /\ ret' = Ret("unlock_categories", passphrase, r.res)
    /\ UNCHANGED <<fs, audit, clock, hist>>
    /\ UNCHANGED <<mutex, conn, disk, call>>

\* The calls that write no file through save_encrypted, made between two
\* saves. AuditLog::append writes audit.enc with fs::write, which does not
\* sync: disk stays as it is.
CCall ==
    /\ call = None
    /\ \/ VOpen
       \/ \E p \in CreatePassphrases : VUnlock(p)
       \/ \E p \in CreatePassphrases, l \in CategoryLists : VUnlockCategories(p, l)
       \/ \E c \in InputCategories : VList(c)
       \/ \E key \in {RandomKey} : AOpen(key)
       \/ ALogUnlock

\* save_encrypted has encrypted the data and File::create has returned: the
\* category file is empty, write_all comes next.
File_create(op, arg, r) ==
    LET path == CHOOSE p \in CategoryPaths : r.fs.files[p] # fs.files[p]
    IN  /\ vault' = Some(r.vault)
        /\ fs' = [fs EXCEPT !.files[path] = Some(Truncated)]
        /\ call' = Some([op |-> op, arg |-> arg, res |-> r.res, pc |-> "write_all",
                         path |-> path, before |-> fs.files[path],
                         after |-> r.fs.files[path]])
        /\ UNCHANGED <<audit, ret, mutex, conn, hist, disk>>

\* vault.add_entry(entry), as far as File::create in save_encrypted: the
\* entry is in the category in memory.
CAdd(category, in) ==
    /\ call = None
    /\ vault.some
    /\ clock < MaxAdds
    /\ LET entry == NewEntry(category, in, clock + 1, clock + 1)
           r == add_entry(vault.val, fs, entry, FileNonce)
       IN  /\ r.res.ok
           /\ File_create("add_entry", entry, r)
    /\ clock' = clock + 1

\* vault.delete_entry(id) of an entry that is there, as far as File::create
\* in save_encrypted: the entry is gone from the category in memory.
CDelete(id) ==
    /\ call = None
    /\ vault.some
    /\ LET r == delete_entry(vault.val, fs, id, FileNonce)
       IN  /\ r.res.ok
           /\ r.res.val
           /\ r.fs # fs
           /\ File_create("delete_entry", id, r)
    /\ UNCHANGED clock

\* file.write_all(&encrypted) writes all of the ciphertext.
WriteAll ==
    /\ call.some
    /\ call.val.pc = "write_all"
    /\ fs' = [fs EXCEPT !.files[call.val.path] = call.val.after]
    /\ call' = Some([call.val EXCEPT !.pc = "sync_all"])
    /\ UNCHANGED <<vault, audit, clock, ret, mutex, conn, hist, disk>>

\* file.write_all(&encrypted) returns an error, with none or a part of the
\* ciphertext in the file: "?" returns it from save_encrypted, save_category
\* and the call.
WriteAllFails ==
    /\ call.some
    /\ call.val.pc = "write_all"
    /\ \E left \in {Truncated, CutShort(call.val.after.val)} :
          fs' = [fs EXCEPT !.files[call.val.path] = Some(left)]
    /\ call' = None
    /\ ret' = Ret(call.val.op, call.val.arg, Err("No space left on device"))
    /\ UNCHANGED <<vault, audit, clock, mutex, conn, hist, disk>>

\* file.sync_all() returns, and Ok(()) goes up to the caller.
SyncAll ==
    /\ call.some
    /\ call.val.pc = "sync_all"
    /\ disk' = sync_all(disk, fs, call.val.path)
    /\ call' = None
    /\ ret' = Ret(call.val.op, call.val.arg, call.val.res)
    /\ hist' = IF call.val.op = "add_entry"
               THEN [hist EXCEPT !.added = Append(@, call.val.arg),
                                 !.kept = Append(@, call.val.arg),
                                 !.reopened = FALSE]
               ELSE [hist EXCEPT !.removed = @ \cup {call.val.arg},
                                 !.kept = Without(@, position(@, call.val.arg)),
                                 !.reopened = FALSE]
    /\ UNCHANGED <<fs, vault, audit, clock, mutex, conn>>

\* audit.log_unlock() whose fs::write(&self.path, &encrypted) fails: fs::write
\* creates the file as File::create does and then writes, so that audit.enc
\* is left with none or a part of the new ciphertext; "?" returns the error
\* before last_hash is assigned.
ALogUnlockWriteFails ==
    /\ call = None
    /\ audit.some
    /\ clock < MaxAppends
    /\ LET r == log_unlock(audit.val, fs, clock + 1, clock + 1, FileNonce)
       IN  /\ r.res.ok
           /\ \E left \in {Truncated, CutShort(r.fs.files["audit.enc"].val)} :
                 fs' = [fs EXCEPT !.files["audit.enc"] = Some(left)]
    /\ ret' = Ret("log_unlock", Unit, Err("No space left on device"))
    /\ clock' = clock + 1
    /\ UNCHANGED <<vault, audit, mutex, conn, hist, disk, call>>

\* The process is killed during a save: the file stays as the last system
\* call left it, the vault and the log in memory are gone.
Killed ==
    /\ call.some
    /\ call' = None
    /\ vault' = None
    /\ audit' = None
    /\ ret' = [op |-> "killed", arg |-> Unit, res |-> Ok(Unit), was_unlocked |-> FALSE]
    /\ UNCHANGED <<fs, clock, mutex, conn, hist, disk>>

\* The machine loses power: of every file, what comes back is what stable
\* storage held or, when the system had written it back by itself, what the
\* file held; memory is gone.
PowerLoss ==
    /\ fs # disk
    /\ \E back \in SUBSET {p \in Paths : fs.files[p] # disk.files[p]} :
          LET left == [dir   |-> disk.dir,
                       files |-> [p \in Paths |-> IF p \in back
                                                  THEN fs.files[p]
                                                  ELSE disk.files[p]]]
          IN  /\ fs' = left
              /\ disk' = left
    /\ call' = None
    /\ vault' = None
    /\ audit' = None
    /\ ret' = [op |-> "power_loss", arg |-> Unit, res |-> Ok(Unit), was_unlocked |-> FALSE]
    /\ UNCHANGED <<clock, mutex, conn, hist>>

\* The entries the caller adds in SpecCrash.
CrashInputs == {in \in EntryInputs : in.username.some}

NextCrash ==
    \/ \E p \in CreatePassphrases, s \in Salts : CCreate(p, s)
    \/ CCall
    \/ \E c \in InputCategories, in \in CrashInputs : CAdd(c, in)
    \/ \E id \in Ids : CDelete(id)
    \/ WriteAll
    \/ WriteAllFails
    \/ SyncAll
    \/ ALogUnlockWriteFails
    \/ Killed
    \/ PowerLoss

SpecCrash == Init /\ [][NextCrash]_vars

\* C24: while add_entry or delete_entry saves a category, whatever happens to
\* the write, the category file holds all of the ciphertext it held before
\* the call or all of the ciphertext the call writes.
C24_CategoryFileOldOrNew ==
    call.some =>
        \/ fs.files[call.val.path] = call.val.before
        \/ fs.files[call.val.path] = call.val.after


\* ------------------------------------------------------------------------
\* SpecCrypto: a caller of encrypt and decrypt
\* ------------------------------------------------------------------------

\* The plaintexts: none, and those of the tests of crypto.rs.
Plaintexts == {"", "Hello, Prosperity!", "secret data"}

\* SecureKey::generate() returns one of the first two; the third is derived.
CryptoKeys == {RandomKey, [random |-> "k1"], derive_subkey(RandomKey, "kek")}

\* generate_nonce() returns one of these.
Nonces == {"n0", "n1"}

\* The lengths below NONCE_LEN + 16 the caller cuts an input to.
ShortLens == {0, NONCE_LEN - 1, NONCE_LEN, NONCE_LEN + TAG_LEN - 1}

\* The first n bytes of an output of encrypt, n < NONCE_LEN + TAG_LEN.
Prefix(blob, n) ==
    IF n < NONCE_LEN THEN [len |-> n] ELSE [len |-> n, nonce |-> blob.nonce]

\* An output of encrypt with one byte changed: a byte of the nonce, of the
\* encrypted plaintext, or of the tag.
ByteChanged(blob, where) ==
    CASE where = "nonce" ->
           [blob EXCEPT !.nonce = CHOOSE n \in Nonces : n # @]
      [] where = "body" ->
           [blob EXCEPT !.body.sealed = CHOOSE m \in Plaintexts : m # @]
      [] where = "tag" -> Damaged(blob)

\* let ciphertext = encrypt(plaintext, &key).unwrap()
Encrypt(plaintext, key, nonce) ==
    /\ ret' = Ret("encrypt",
                  [plaintext |-> plaintext, key |-> key, how |-> "intact"],
                  Ok(encrypt(plaintext, key, nonce)))
    /\ UNCHANGED <<fs, vault, audit, clock, mutex, conn, hist, disk, call>>

\* The caller changes one byte of the ciphertext in hand.
ChangeByte(where) ==
    /\ ret.op = "encrypt"
    /\ ret.arg.how = "intact"
    /\ ret' = Ret("encrypt", [ret.arg EXCEPT !.how = where],
                  Ok(ByteChanged(ret.res.val, where)))
    /\ UNCHANGED <<fs, vault, audit, clock, mutex, conn, hist, disk, call>>

\* The caller keeps the first n bytes of the ciphertext in hand.
Shorten(n) ==
    /\ ret.op = "encrypt"
    /\ ret.arg.how = "intact"
    /\ ret' = Ret("encrypt", [ret.arg EXCEPT !.how = "short"],
                  Ok(Prefix(ret.res.val, n)))
    /\ UNCHANGED <<fs, vault, audit, clock, mutex, conn, hist, disk, call>>

\* decrypt(&ciphertext, &key)
Decrypt(key) ==
    /\ ret.op = "encrypt"
    /\ ret' = Ret("decrypt",
                  [plaintext |-> ret.arg.plaintext, key |-> ret.arg.key,
                   how |-> ret.arg.how, input |-> ret.res.val, with |-> key],
                  decrypt(ret.res.val, key))
    /\ UNCHANGED <<fs, vault, audit, clock, mutex, conn, hist, disk, call>>

NextCrypto ==
    \/ \E m \in Plaintexts, k \in CryptoKeys, n \in Nonces : Encrypt(m, k, n)
    \/ \E where \in {"nonce", "body", "tag"} : ChangeByte(where)
    \/ \E n \in ShortLens : Shorten(n)
    \/ \E k \in CryptoKeys : Decrypt(k)

SpecCrypto == Init /\ [][NextCrypto]_vars

\* C25: decrypt under the key of encrypt gives back the plaintext of an
\* output of encrypt; under another key, on an output with one byte changed,
\* and on an input of less than NONCE_LEN + 16 = 40 bytes it returns an error.
C25_DecryptInvertsEncrypt ==
    ret.op = "decrypt" =>
        /\ (ret.arg.how = "intact" /\ ret.arg.with = ret.arg.key)
               => ret.res = Ok(ret.arg.plaintext)
        /\ ret.arg.with # ret.arg.key => ~ret.res.ok
        /\ ret.arg.how \in {"nonce", "body", "tag"} => ~ret.res.ok
        /\ ret.arg.how = "short"
               => /\ ret.arg.input.len < 40
                  /\ ret.res = Err("Ciphertext too short")

\* A ciphertext whose last byte was changed, refused under the key it was
\* encrypted with.
C25_Witness ==
    /\ ret.op = "decrypt"
    /\ ret.arg.how = "tag"
    /\ ret.arg.with = ret.arg.key
    /\ ret.res = Err("Decryption failed: invalid key or tampered data")


\* The Status request, as handle_connection parses it.
StatusRequest == Request_from_str(Json([cmd |-> "status"])).val

\* C26: in every state of the daemon a Status request is answered ok, with
\* unlocked true exactly when the daemon holds a vault that is unlocked and
\* vault_exists true exactly when the vault directory exists, and the
\* handler leaves the vault, the audit log and every file as they are.
C26_StatusReportsState ==
    /\ handle(vault, audit, fs, clock, StatusRequest) # {}
    /\ \A out \in handle(vault, audit, fs, clock, StatusRequest) :
          /\ out.response.status = "ok"
          /\ out.response.data.some
          /\ out.response.data.val.unlocked
                <=> (vault.some /\ vault.val.master_key.some)
          /\ out.response.data.val.vault_exists <=> fs.dir
          /\ out.vault = vault
          /\ out.audit = audit
          /\ out.fs = fs
    /\ \A c \in Conns :
          (conn[c].pc = "write" /\ conn[c].req.some
                                /\ conn[c].req.val.cmd = "status")
              => conn[c].response.val.body.status = "ok"

\* A Status request answered while the daemon holds an unlocked vault.
C26_Witness ==
    \E c \in Conns :
        /\ conn[c].pc = "write"
        /\ conn[c].req.some
        /\ conn[c].req.val.cmd = "status"
        /\ conn[c].response.val.body =
              Response_ok_with([unlocked |-> TRUE, vault_exists |-> TRUE])
        /\ unlocked_vault(vault)


\* C27: the last_hash of the log in hand is the entry_hash of the last record
\* of the audit file, the genesis string when the file is absent or holds no
\* record, after open and after every append that succeeded or failed; and
\* the records of the file form a chain that verify_chain accepts.
C27_LastHashFollowsFile ==
    (audit.some /\ read_content(fs, audit.val.key).ok) =>
        /\ read_last_hash(fs, audit.val.key) = Ok(audit.val.last_hash)
        /\ verify_chain(audit.val, fs) = Ok(TRUE)


\* C28: the daemon's lock is held by a connection only while its handler
\* runs, never while it waits for a line or has a response to write or has
\* returned; so with no handler running the lock is free for a request that
\* waits for it, whatever the other connections are doing, and the handler
\* that holds the lock can take its step.
C28_LockOnlyWhileHandling ==
    /\ \A c \in Conns :
          /\ mutex = Some(c) => conn[c].pc = "handle"
          /\ conn[c].pc \in {"unconnected", "read", "lock", "write", "returned"}
                => mutex # Some(c)
          /\ conn[c].pc = "handle"
                => handle(vault, audit, fs, clock, conn[c].req.val) # {}
    /\ (\A c \in Conns : conn[c].pc # "handle") => mutex = None

\* One connection has a response nobody has taken yet; the other holds the
\* lock for its request.
C28_Witness ==
    /\ conn["c1"].pc = "write"
    /\ conn["c1"].req.some
    /\ conn["c2"].pc = "handle"
    /\ mutex = Some("c2")


\* ------------------------------------------------------------------------
\* SpecSteps: the daemon, a handler taken one file at a time
\* ------------------------------------------------------------------------

\* Where a handler is between its first write and its return.
Handling == {"handle_audit", "handle_return"}

\* daemon.handle(req), as far as its writes to vault.meta, dek.enc and the
\* category files (Vault::create, add_entry, delete_entry): in every handler
\* they come before the write to audit.enc.
HandleVaultFiles(c) ==
    /\ conn[c].pc = "handle"
    /\ \E out \in handle(vault, audit, fs, clock, conn[c].req.val) :
          /\ call' = Some([by |-> c, out |-> out])
          /\ fs' = [out.fs EXCEPT !.files["audit.enc"] = fs.files["audit.enc"]]
          /\ hist' = [hist EXCEPT
                        !.created_with =
                            IF ~fs.dir /\ out.fs.dir
                            THEN Some(conn[c].req.val.passphrase)
                            ELSE @]
    /\ conn' = [conn EXCEPT ![c].pc = "handle_audit"]
    /\ UNCHANGED <<vault, audit, clock, ret, mutex, disk>>

\* A handler whose guard is dropped before its append to the audit log.
HandleAuditFile_without_guard(c) ==
    /\ conn[c].pc = "handle_audit"
    /\ call.some
    /\ call.val.by = c
    /\ fs' = [fs EXCEPT !.files["audit.enc"] = call.val.out.fs.files["audit.enc"]]
    /\ mutex' = None
    /\ conn' = [conn EXCEPT ![c].pc = "handle_return"]
    /\ UNCHANGED <<vault, audit, clock, ret, disk, call, hist>>

\* The handler's append to the audit log (log_unlock, log_lock, log_access),
\* when it makes one: fs::write of audit.enc.
HandleAuditFile(c) ==
    /\ conn[c].pc = "handle_audit"
    /\ call.some
    /\ call.val.by = c
    /\ fs' = [fs EXCEPT !.files["audit.enc"] = call.val.out.fs.files["audit.enc"]]
    /\ hist' = [hist EXCEPT
                  !.events =
                      IF call.val.out.fs.files["audit.enc"] # fs.files["audit.enc"]
                      THEN Append(@, [by  |-> <<c, conn[c].nread>>,
                                      cmd |-> conn[c].req.val.cmd,
                                      id  |-> clock + 1])
                      ELSE @]
    /\ conn' = [conn EXCEPT ![c].pc = "handle_return"]
    /\ UNCHANGED <<vault, audit, clock, ret, mutex, disk, call>>

\* The handler assigns self.vault and self.audit and returns its response;
\* the guard is dropped at the end of the arm.
HandleReturn(c) ==
    /\ conn[c].pc = "handle_return"
    /\ call.some
    /\ call.val.by = c
    /\ vault' = call.val.out.vault
    /\ audit' = call.val.out.audit
    /\ clock' = call.val.out.clock
    /\ conn' = [conn EXCEPT ![c].pc = "write",
                            ![c].response = Some([for |-> conn[c].nread,
                                                  body |-> call.val.out.response])]
    /\ mutex' = None
    /\ call' = None
    /\ UNCHANGED <<fs, ret, disk, hist>>

\* The client of a connection closes its socket while its request waits for
\* the lock or is being handled: the task does not look at the socket before
\* it writes the response.
ClientGone(c) ==
    /\ conn[c].pc \in {"lock", "handle"} \cup Handling
    /\ c \notin hist.gone
    /\ hist' = [hist EXCEPT !.gone = @ \cup {c}]
    /\ UNCHANGED <<fs, vault, audit, clock, ret, mutex, conn, disk, call>>

NextSteps ==
    \/ \E c \in Conns : Accept(c)
    \/ \E c \in Conns, line \in Lines : ReadLine(c, line)
    \/ \E c \in Conns : ReadEof(c)
    \/ \E c \in Conns : Acquire(c)
    \/ \E c \in Conns : HandleVaultFiles(c)
    \/ \E c \in Conns : HandleAuditFile(c)
    \/ \E c \in Conns : HandleReturn(c)
    \/ \E c \in Conns : ClientGone(c)
    \/ \E c \in Conns \ hist.gone : WriteResponse(c)
    \/ \E c \in Conns : WriteFails(c)

SpecSteps == Init /\ [][NextSteps]_vars

\* C29: from the step in which a handler takes the lock to the step in which
\* it gives it up, the handler in progress is the one holding the lock, it
\* has written every file its request changes when it returns, also when its
\* client has gone; a request that is about to be handled finds no handler
\* in progress, and with the lock free none is.
C29_HandlerRunsToCompletion ==
    /\ call.some =>
          /\ mutex = Some(call.val.by)
          /\ conn[call.val.by].pc \in Handling
    /\ \A c \in Conns :
          /\ conn[c].pc \in Handling => (call.some /\ call.val.by = c)
          /\ conn[c].pc = "handle" => (mutex = Some(c) /\ call = None)
          /\ conn[c].pc = "handle_return" => fs = call.val.out.fs
          /\ conn[c].pc \in {"write", "returned"} => ~(call.some /\ call.val.by = c)
    /\ mutex = None => call = None

\* A client that went away while its unlock request was handled: the vault
\* directory and the audit record are there, the task has returned on the
\* failed write, and the lock is free.
C29_Witness ==
    /\ "c1" \in hist.gone
    /\ conn["c1"].pc = "returned"
    /\ conn["c1"].result = Some(Err("Broken pipe"))
    /\ conn["c1"].req.some
    /\ conn["c1"].req.val.cmd = "unlock"
    /\ fs.dir
    /\ fs.files["vault.meta"].some
    /\ fs.files["audit.enc"].some
    /\ mutex = None
    /\ call = None


\* The calls that write files of the vault directory.
WritingCalls == {"create", "add_entry", "delete_entry", "log_unlock"}

\* C30: when create, add_entry, delete_entry or an audit append has returned
\* Ok, stable storage holds every file of the vault directory as the call
\* left it, so that a loss of power after the return takes nothing away.
C30_ReturnedWritesAreOnDisk ==
    (call = None /\ ret.op \in WritingCalls /\ ret.res.ok) =>
        \A p \in Paths : disk.files[p] = fs.files[p]


\* C31: when add_entry or delete_entry has returned an error, every loaded
\* category holds in memory the entries it held before the call: those added
\* with success and not deleted with success since.
C31_FailedSaveLeavesMemory ==
    (call = None /\ vault.some /\ ret.op \in {"add_entry", "delete_entry"}
                 /\ ~ret.res.ok) =>
        \A c \in DOMAIN vault.val.unlocked_categories :
            vault.val.unlocked_categories[c].entries = AddedTo(c)


\* C32: when unlock_categories, called on a locked vault, has returned an
\* error, the vault is locked and holds no key: no master key, no kek, no
\* dek, no category key.
C32_FailedUnlockCategoriesStaysLocked ==
    (vault.some /\ ret.op = "unlock_categories" /\ ~ret.was_unlocked
                /\ ~ret.res.ok) =>
        /\ ~is_unlocked(vault.val)
        /\ vault.val.kek = None
        /\ vault.val.dek = None
        /\ vault.val.category_keys = EmptyMap


\* ------------------------------------------------------------------------
\* SpecCreateFault: the daemon, with a Vault::create that can fail part-way
\* ------------------------------------------------------------------------

\* The files Vault::create writes, in its order: dek.enc, the category files
\* in the order of Category::all(), vault.meta.
CreateOrder ==
    <<"dek.enc">> \o [i \in 1..Len(Category_all) |-> filename(Category_all[i])]
                  \o <<"vault.meta">>

\* What Vault::create leaves when it fails after create_dir_all and k whole
\* files: the directory, and the first k files of what it writes.
Vault_create_failing(fs0, passphrase, salt, dek, nonce, now, k) ==
    [dir   |-> TRUE,
     files |-> [p \in Paths |->
                  IF \E i \in 1..k : CreateOrder[i] = p
                  THEN Vault_create(fs0, passphrase, salt, dek, nonce, now).fs.files[p]
                  ELSE fs0.files[p]]]

\* daemon.handle(Unlock) on a missing vault directory, Vault::create failing
\* at its (k+1)-th file: "?" returns the error, handle_unlock answers
\* "Unlock failed" and assigns nothing.
HandleUnlockCreateFails(c, k) ==
    /\ conn[c].pc = "handle"
    /\ conn[c].req.val.cmd = "unlock"
    /\ ~fs.dir
    /\ fs' = Vault_create_failing(fs, conn[c].req.val.passphrase, RandomSalt,
                                  RandomKey, FileNonce, clock, k)
    /\ conn' = [conn EXCEPT ![c].pc = "write",
                            ![c].response =
                               Some([for |-> conn[c].nread,
                                     body |-> Response_error_fmt(
                                                 "Unlock failed",
                                                 "No space left on device")])]
    /\ mutex' = None
    /\ UNCHANGED <<vault, audit, clock, ret, hist, disk, call>>

NextCreateFault ==
    \/ Next
    \/ \E c \in Conns, k \in 0..(Len(CreateOrder) - 1) : HandleUnlockCreateFails(c, k)

SpecCreateFault == Init /\ [][NextCreateFault]_vars

\* C33: with a vault directory that a failed Vault::create left behind, an
\* Unlock request handled without a failure answers ok and leaves the daemon
\* with an unlocked vault.
C33_UnlockAfterFailedCreate ==
    (fs.dir /\ ~fs.files["vault.meta"].some) =>
        \A p \in Passphrases :
            \A out \in handle(vault, audit, fs, clock,
                              Request_from_str(Json([cmd |-> "unlock",
                                                     passphrase |-> p])).val) :
                /\ out.response = Response_ok
                /\ unlocked_vault(out.vault)


\* C34: a step in which the daemon answers an Unlock request with an error
\* leaves its vault and its audit log as they were.
C34_FailedUnlockKeepsDaemon ==
    [][\A c \in Conns :
          (/\ conn[c].pc = "handle"
           /\ conn'[c].pc = "write"
           /\ conn[c].req.val.cmd = "unlock"
           /\ conn'[c].response.val.body.status = "error")
              => (vault' = vault /\ audit' = audit)]_vars

\* An Unlock with the wrong passphrase answered with an error by a daemon
\* that still holds its unlocked vault and its audit log.
C34_Witness ==
    \E c \in Conns :
        /\ conn[c].pc = "write"
        /\ conn[c].req.some
        /\ conn[c].req.val.cmd = "unlock"
        /\ conn[c].req.val.passphrase = "wrong"
        /\ conn[c].response.val.body.status = "error"
        /\ unlocked_vault(vault)
        /\ audit.some


\* ------------------------------------------------------------------------
\* SpecSubset: the daemon, with clients that also unlock a category subset
\* ------------------------------------------------------------------------

\* The category lists of the Unlock requests with a subset.
SubsetLists == {<<"patterns">>}

\* The Unlock lines that name a subset.
SubsetLines ==
    {Json([cmd |-> "unlock", passphrase |-> "correct", categories |-> l]) :
        l \in SubsetLists}

NextSubset ==
    \/ Next
    \/ \E c \in Conns, line \in SubsetLines : ReadLine(c, line)

SpecSubset == Init /\ [][NextSubset]_vars

\* What a request is answered, and the files it leaves, when handled after
\* the outcome o of an earlier request.
AnswersAfter(o, req) ==
    {[response |-> x.response, files |-> x.fs.files] :
        x \in handle(o.vault, o.audit, o.fs, o.clock, req)}

LiveLines ==
    {Json([cmd |-> "unlock", passphrase |-> "correct"]),
     Json([cmd |-> "status"]),
     Json([cmd |-> "lock"]),
     NotJson("garbage")}

NextLive ==
    \/ \E c \in Conns : Accept(c)
    \/ \E c \in Conns, line \in LiveLines : ReadLine(c, line)
    \/ \E c \in Conns : ReadEof(c)
    \/ \E c \in Conns : Acquire(c)
    \/ \E c \in Conns : Handle(c)
    \/ \E c \in Conns : WriteResponse(c)
    \/ \E c \in Conns : WriteFails(c)

\* d.handle(req) has no loop and awaits nothing: a handler that holds the
\* lock is not inside handle for ever. This is WF_vars(Handle(c)) written
\* out: Handle(c) is enabled exactly while the handler is at "handle", and
\* it is the only step that leaves it.
HandleReturns(c) == []<>(conn[c].pc # "handle")

\* tokio's Mutex hands the lock to its waiters in turn: a task that waits in
\* daemon.lock() while the lock is free again and again gets it. write_all
\* of a response returns, with Ok or with an error. Nothing makes a client
\* connect or send a line.
SpecLive ==
    /\ Init
    /\ [][NextLive]_vars
    /\ \A c \in Conns : SF_vars(Acquire(c))
    /\ \A c \in Conns : HandleReturns(c)
    /\ \A c \in Conns : WF_vars(WriteResponse(c) \/ WriteFails(c))

C37_DaemonHoldsOnlyUnlockedVault ==
    /\ vault.some => is_unlocked(vault.val)
    /\ audit.some => vault.some

\* After an Unlock and a Lock the daemon holds nothing, and a second Unlock
\* has given it an unlocked vault and an audit log again.
C37_Witness ==
    /\ mutex = None
    /\ vault.some /\ is_unlocked(vault.val)
    /\ audit.some
    /\ \E c \in Conns :
          /\ conn[c].pc = "read"
          /\ conn[c].req.some
          /\ conn[c].req.val.cmd = "unlock"
          /\ conn[c].response.val.body = Response_ok
    /\ \E i \in 1..Len(hist.events) : hist.events[i].cmd = "lock"

====
